---- MODULE Spec2Model ----
(***************************************************************************)
(* kube-vip cloud provider: the IP address manager (pkg/ipam), the service *)
(* reconciler (pkg/provider/loadBalancer.go) and the load-balancer-class   *)
(* controller (pkg/provider/loadbalancerclass.go).                         *)
(*                                                                         *)
(* Representation.  An address is a record [fam, n]: fam = 4 with n the    *)
(* 32-bit value in network byte order, or fam = 6 with n the low 16 bits   *)
(* of an address under fe80::/112.  A text that netip.ParseAddr rejects is *)
(* the token [fam |-> 0, n |-> 0].  A comma-separated string is the        *)
(* sequence of its tokens; the empty string is the empty sequence.  An     *)
(* IPSet is, as in netipx, the sorted sequence of its disjoint,            *)
(* non-adjacent ranges.                                                    *)
(***************************************************************************)
EXTENDS Integers, Sequences, FiniteSets, TLC

\* ------------------------------------------------------------------ bounds
\* Host bits of the widest prefix the model parses (a /23 for IPv4).
MaxHostBits == 9
\* How many services the users create during a run.
MaxCreates == 2
\* How many times a user deletes a service.
MaxDeletes == 1
\* How many times a user edits a stored service.
MaxEdits == 1
\* How many times the operator replaces the configuration document.
MaxCfgChanges == 1

\* -------------------------------------------------------------- addresses
V4(a, b, c, d) == [fam |-> 4, n |-> ((a * 256 + b) * 256 + c) * 256 + d]
V6(x) == [fam |-> 6, n |-> x]
BadAddr == [fam |-> 0, n |-> 0]

\* netip.Addr.BitLen
BitLen(fam) == IF fam = 4 THEN 32 ELSE 128

Pow2(h) == 2 ^ h

\* netip.Addr.Is4 / Is6
Is4(ip) == ip.fam = 4
Is6(ip) == ip.fam = 6

\* netip.ParseAddr: fails on a text that is no address
ParseAddrOk(tok) == tok.fam \in {4, 6}

\* ------------------------------------------------------------------ IPSet
Range(fam, from, to) == [fam |-> fam, from |-> from, to |-> to]

\* netipx.IPRange.IsValid: same family and from <= to
RangeValid(from, to) == /\ from.fam = to.fam
                        /\ from.fam \in {4, 6}
                        /\ from.n <= to.n

\* netip.Addr.Compare on range starts: IPv4 sorts before IPv6
RangeLess(r, s) == \/ r.fam < s.fam
                   \/ r.fam = s.fam /\ r.from < s.from
                   \/ r.fam = s.fam /\ r.from = s.from /\ r.to < s.to

RECURSIVE SortRanges(_)
SortRanges(S) ==
    IF S = {} THEN <<>>
    ELSE LET m == CHOOSE r \in S : \A s \in S : r = s \/ RangeLess(r, s)
         IN  <<m>> \o SortRanges(S \ {m})

Max2(a, b) == IF a >= b THEN a ELSE b

\* netipx mergeIPRanges: overlapping and adjacent ranges become one
RECURSIVE MergeRanges(_, _)
MergeRanges(acc, rest) ==
    IF rest = <<>> THEN acc
    ELSE LET r == Head(rest)
         IN  IF acc = <<>> THEN MergeRanges(<<r>>, Tail(rest))
             ELSE LET p == acc[Len(acc)]
                  IN  IF p.fam = r.fam /\ r.from <= p.to + 1
                      THEN MergeRanges(
                             [acc EXCEPT ![Len(acc)] =
                                 Range(p.fam, p.from, Max2(p.to, r.to))],
                             Tail(rest))
                      ELSE MergeRanges(Append(acc, r), Tail(rest))

\* netipx.IPSetBuilder.IPSet over the ranges added to the builder
IPSetOf(S) == MergeRanges(<<>>, SortRanges(S))

\* netipx.IPSet.Contains
Contains(ipset, ip) ==
    \E i \in 1..Len(ipset) :
        ipset[i].fam = ip.fam /\ ipset[i].from <= ip.n /\ ip.n <= ipset[i].to

\* The largest h such that the block of 2^h addresses at `from` is aligned
\* and ends at or before `to`.
BlockBits(from, to) ==
    CHOOSE h \in 0..MaxHostBits :
        /\ from % Pow2(h) = 0 /\ from + Pow2(h) - 1 <= to
        /\ \A g \in (h + 1)..MaxHostBits :
              ~(from % Pow2(g) = 0 /\ from + Pow2(g) - 1 <= to)

Prefix(fam, addr, bits) == [t |-> "cidr", fam |-> fam, addr |-> addr, bits |-> bits]

\* netipx.IPRange.Prefixes: the aligned blocks that cover one range
RECURSIVE PrefixesOfRange(_, _, _)
PrefixesOfRange(fam, from, to) ==
    IF from > to THEN <<>>
    ELSE LET h == BlockBits(from, to)
         IN  <<Prefix(fam, from, BitLen(fam) - h)>>
             \o PrefixesOfRange(fam, from + Pow2(h), to)

\* netipx.IPSet.Prefixes
RECURSIVE Prefixes(_)
Prefixes(ipset) ==
    IF ipset = <<>> THEN <<>>
    ELSE PrefixesOfRange(ipset[1].fam, ipset[1].from, ipset[1].to)
         \o Prefixes(Tail(ipset))

\* netipx.RangeOfPrefix: the prefix is masked first
RangeOfPrefix(p) ==
    LET size == Pow2(BitLen(p.fam) - p.bits)
        base == p.addr - (p.addr % size)
    IN  Range(p.fam, base, base + size - 1)

\* netip.ParsePrefix accepts the entry
PrefixOk(e) == /\ e.t = "cidr"
               /\ e.fam \in {4, 6}
               /\ e.bits <= BitLen(e.fam)
               /\ BitLen(e.fam) - e.bits <= MaxHostBits

Ok(v) == [ok |-> TRUE, val |-> v]
Fail == [ok |-> FALSE, val |-> <<>>]

\* ------------------------------------------------------- pool declarations
\* A pool declaration is the sequence of its comma-separated entries: a CIDR
\* entry Prefix(fam, addr, bits), a range entry RangeEntry(from, to), or
\* BadEntry for a text that is neither.
RangeEntry(from, to) == [t |-> "range", from |-> from, to |-> to]
BadEntry == [t |-> "bad"]

\* strings.Contains(pool, "/")
ContainsSlash(pool) == \E i \in 1..Len(pool) : pool[i].t = "cidr"

\* The DHCP sentinel "0.0.0.0/32"
DHCPPool == <<Prefix(4, 0, 32)>>
DHCPAddr == [fam |-> 4, n |-> 0]

SeqRange(s) == {s[i] : i \in 1..Len(s)}

\* parseCidrs: an IPSet from comma-separated prefixes, or a parse error
parseCidrs(cidr) ==
    IF cidr = <<>> \/ \E i \in 1..Len(cidr) : ~PrefixOk(cidr[i])
    THEN Fail
    ELSE Ok(IPSetOf({RangeOfPrefix(cidr[i]) : i \in 1..Len(cidr)}))

\* The range one canonical prefix contributes to buildHostsFromCidr
HostsOfPrefix(p, skip) ==
    LET r == RangeOfPrefix(p)
    IN  IF p.fam # 4 THEN r
        ELSE IF p.bits = 32 /\ skip THEN Range(4, p.addr, p.addr)
        ELSE IF p.bits = 31 THEN r
        ELSE IF skip THEN Range(4, r.from + 1, r.to - 1)
        ELSE r

\* buildHostsFromCidr: the hosts of the canonical prefixes of the declaration
buildHostsFromCidr(cidr, cfg) ==
    LET unfiltered == parseCidrs(cidr)
    IN  IF ~unfiltered.ok THEN Fail
        ELSE LET ps == Prefixes(unfiltered.val)
                 rs == {HostsOfPrefix(ps[i], cfg.skip) : i \in 1..Len(ps)}
             IN  IF \E r \in rs : r.from > r.to THEN Fail
                 ELSE Ok(IPSetOf(rs))

RangeEntryOk(e) == /\ e.t = "range"
                   /\ ParseAddrOk(e.from) /\ ParseAddrOk(e.to)
                   /\ RangeValid(e.from, e.to)

\* buildAddressesFromRange: an IPSet from comma-separated A-B entries
buildAddressesFromRange(ipRangeString) ==
    IF ipRangeString = <<>>
       \/ \E i \in 1..Len(ipRangeString) : ~RangeEntryOk(ipRangeString[i])
    THEN Fail
    ELSE Ok(IPSetOf({Range(ipRangeString[i].from.fam, ipRangeString[i].from.n,
                           ipRangeString[i].to.n) : i \in 1..Len(ipRangeString)}))

SelectFam(s, fam) == SelectSeq(s, LAMBDA e : e.fam = fam)

\* SplitCIDRsByIPFamily: the canonical prefixes of each family, as strings
SplitCIDRsByIPFamily(cidrs) ==
    LET ipPools == parseCidrs(cidrs)
    IN  IF ~ipPools.ok THEN [ok |-> FALSE, ipv4 |-> <<>>, ipv6 |-> <<>>]
        ELSE LET ps == Prefixes(ipPools.val)
             IN  [ok |-> TRUE, ipv4 |-> SelectFam(ps, 4), ipv6 |-> SelectFam(ps, 6)]

RangesAsEntries(rs) ==
    [i \in 1..Len(rs) |->
        RangeEntry([fam |-> rs[i].fam, n |-> rs[i].from],
                   [fam |-> rs[i].fam, n |-> rs[i].to])]

\* SplitRangesByIPFamily: the canonical ranges of each family, as strings
SplitRangesByIPFamily(ipRangeString) ==
    LET ipPools == buildAddressesFromRange(ipRangeString)
    IN  IF ~ipPools.ok THEN [ok |-> FALSE, ipv4 |-> <<>>, ipv6 |-> <<>>]
        ELSE [ok |-> TRUE,
              ipv4 |-> RangesAsEntries(SelectFam(ipPools.val, 4)),
              ipv6 |-> RangesAsEntries(SelectFam(ipPools.val, 6))]

\* ------------------------------------------------------------ FindFreeAddress
\* isNetworkIDOrBroadcastIP that knows only the last octet 0
isNetworkIDOrBroadcastIP_ZeroOnly(ip) == ip.n % 256 = 0

\* isNetworkIDOrBroadcastIP: the last octet is 0 or 255
isNetworkIDOrBroadcastIP(ip) == ip.n % 256 = 0 \/ ip.n % 256 = 255

\* The candidate test without the IPv4 edge filter
IsFree_EdgeAllowed(ip, inUseIPSet) == ~Contains(inUseIPSet, ip)

\* The test both loops of FindFreeAddress apply to a candidate
IsFree(ip, inUseIPSet) ==
    ~Contains(inUseIPSet, ip) /\ (~Is4(ip) \/ ~isNetworkIDOrBroadcastIP(ip))

RECURSIVE WalkUp(_, _, _, _)
WalkUp(fam, n, to, inUseIPSet) ==
    IF IsFree([fam |-> fam, n |-> n], inUseIPSet) THEN Ok([fam |-> fam, n |-> n])
    ELSE IF n = to THEN Fail
    ELSE WalkUp(fam, n + 1, to, inUseIPSet)

RECURSIVE WalkDown(_, _, _, _)
WalkDown(fam, n, from, inUseIPSet) ==
    IF IsFree([fam |-> fam, n |-> n], inUseIPSet) THEN Ok([fam |-> fam, n |-> n])
    ELSE IF n = from THEN Fail
    ELSE WalkDown(fam, n - 1, from, inUseIPSet)

\* The result r if it is an address, else the other result
OrElse(r, other) == IF r.ok THEN r ELSE other

RECURSIVE FindAsc(_, _, _)
FindAsc(ranges, i, inUseIPSet) ==
    IF i > Len(ranges) THEN Fail
    ELSE OrElse(WalkUp(ranges[i].fam, ranges[i].from, ranges[i].to, inUseIPSet),
                FindAsc(ranges, i + 1, inUseIPSet))

RECURSIVE FindDesc(_, _, _)
FindDesc(ranges, i, inUseIPSet) ==
    IF i < 1 THEN Fail
    ELSE OrElse(WalkDown(ranges[i].fam, ranges[i].to, ranges[i].from, inUseIPSet),
                FindDesc(ranges, i - 1, inUseIPSet))

\* FindFreeAddress: the first free address of the pool in the search order
FindFreeAddress(poolIPSet, inUseIPSet, cfg) ==
    IF cfg.desc THEN FindDesc(poolIPSet, Len(poolIPSet), inUseIPSet)
    ELSE FindAsc(poolIPSet, 1, inUseIPSet)

\* ------------------------------------------------------------- ipam.Manager
\* One entry of the process-wide registry (type ipManager)
ipManager(namespace, cidr, ipRange, poolIPSet) ==
    [namespace |-> namespace, cidr |-> cidr, ipRange |-> ipRange,
     poolIPSet |-> poolIPSet]

\* Index of the first registry entry of the namespace, 0 when there is none
ManagerIndex(mgr, namespace) ==
    IF \E x \in 1..Len(mgr) : mgr[x].namespace = namespace
    THEN CHOOSE x \in 1..Len(mgr) :
            /\ mgr[x].namespace = namespace
            /\ \A y \in 1..(x - 1) : mgr[y].namespace # namespace
    ELSE 0

\* Result of an allocation call: the registry it leaves, and a vip or an error
AllocRes(mgr, err, vip) == [mgr |-> mgr, err |-> err, vip |-> vip]

\* What FindAvailableHostFrom* return for the result addr of FindFreeAddress
AllocOf(mgr, addr) ==
    IF addr.ok THEN AllocRes(mgr, "", addr.val)
    ELSE AllocRes(mgr, "OutOfIPs", BadAddr)

\* The call of FindFreeAddress that ends FindAvailableHostFrom*
AllocFrom(mgr, poolIPSet, inUseIPSet, cfg) ==
    AllocOf(mgr, FindFreeAddress(poolIPSet, inUseIPSet, cfg))

\* FindAvailableHostFromRange, with x the index of the namespace's entry and
\* built the result of buildAddressesFromRange(ipRange)
RangeEntrySearch(mgr, x, namespace, ipRange, built, inUseIPSet, cfg) ==
    IF x # 0 /\ mgr[x].ipRange = ipRange
    THEN AllocFrom(mgr, mgr[x].poolIPSet, inUseIPSet, cfg)
    ELSE IF ~built.ok THEN AllocRes(mgr, "parse", BadAddr)
    ELSE AllocFrom(IF x # 0
                   THEN [mgr EXCEPT ![x].poolIPSet = built.val,
                                    ![x].ipRange = ipRange]
                   ELSE Append(mgr, ipManager(namespace, <<>>, ipRange, built.val)),
                   built.val, inUseIPSet, cfg)

\* FindAvailableHostFromRange
FindAvailableHostFromRange(mgr, namespace, ipRange, inUseIPSet, cfg) ==
    RangeEntrySearch(mgr, ManagerIndex(mgr, namespace), namespace, ipRange,
                     buildAddressesFromRange(ipRange), inUseIPSet, cfg)

\* FindAvailableHostFromCidr, with x the index of the namespace's entry and
\* built the result of buildHostsFromCidr(cidr, cfg)
CidrEntrySearch(mgr, x, namespace, cidr, built, inUseIPSet, cfg) ==
    IF x # 0 /\ mgr[x].cidr = cidr
    THEN AllocFrom(mgr, mgr[x].poolIPSet, inUseIPSet, cfg)
    ELSE IF ~built.ok THEN AllocRes(mgr, "parse", BadAddr)
    ELSE AllocFrom(IF x # 0
                   THEN [mgr EXCEPT ![x].poolIPSet = built.val,
                                    ![x].cidr = cidr]
                   ELSE Append(mgr, ipManager(namespace, cidr, <<>>, built.val)),
                   built.val, inUseIPSet, cfg)

\* FindAvailableHostFromCidr
FindAvailableHostFromCidr(mgr, namespace, cidr, inUseIPSet, cfg) ==
    CidrEntrySearch(mgr, ManagerIndex(mgr, namespace), namespace, cidr,
                    buildHostsFromCidr(cidr, cfg), inUseIPSet, cfg)

\* ------------------------------------------------- configuration document
Namespaces == {"a", "b"}
Scopes == Namespaces \cup {"global"}

\* A key of ConfigMap.Data: absent, or present with a value (a pool
\* declaration for cidr- and range- keys, a text for the others)
Unset == [set |-> FALSE, val |-> <<>>]
UnsetText == [set |-> FALSE, val |-> ""]
SetTo(v) == [set |-> TRUE, val |-> v]

\* ConfigMap.Data of a document that declares nothing
EmptyData == [cidr |-> [s \in Scopes |-> Unset],
              range |-> [s \in Scopes |-> Unset],
              share |-> [s \in Scopes |-> UnsetText],
              iface |-> [s \in Scopes |-> UnsetText],
              searchOrder |-> "",
              skipEnd |-> ""]

NoConfigMap == [present |-> FALSE, data |-> EmptyData]
ConfigMapOf(data) == [present |-> TRUE, data |-> data]

\* config.GetKubevipLBConfig
GetKubevipLBConfig(cm) ==
    [desc |-> cm.data.searchOrder = "desc", skip |-> cm.data.skipEnd = "true"]

\* The keys name-<scope> of the document, for name "cidr", "range" or
\* "allow-share"
KeysNamed(cm, name) ==
    IF name = "cidr" THEN cm.data.cidr
    ELSE IF name = "range" THEN cm.data.range
    ELSE cm.data.share

\* getConfig that looks at the global key first
getConfig_GlobalFirst(cm, namespace, name) ==
    LET m == KeysNamed(cm, name)
    IN  IF m["global"].set
        THEN [ok |-> TRUE, value |-> m["global"].val, global |-> TRUE]
        ELSE IF m[namespace].set
        THEN [ok |-> TRUE, value |-> m[namespace].val, global |-> FALSE]
        ELSE [ok |-> FALSE, value |-> IF name = "allow-share" THEN "" ELSE <<>>,
              global |-> FALSE]

\* getConfig: the namespace key if present, else the global key if present
getConfig(cm, namespace, name) ==
    LET m == KeysNamed(cm, name)
    IN  IF m[namespace].set
        THEN [ok |-> TRUE, value |-> m[namespace].val, global |-> FALSE]
        ELSE IF m["global"].set
        THEN [ok |-> TRUE, value |-> m["global"].val, global |-> TRUE]
        ELSE [ok |-> FALSE, value |-> IF name = "allow-share" THEN "" ELSE <<>>,
              global |-> FALSE]

\* strconv.ParseBool: the texts it reads as true (any other text is false
\* or an error, and allowShare stays false)
ParseBoolTrue == {"1", "t", "T", "TRUE", "true", "True"}

\* getConfig for name "allow-share", then strconv.ParseBool of the value
getAllowShare(cm, namespace) ==
    LET r == getConfig(cm, namespace, "allow-share")
    IN  r.ok /\ r.value \in ParseBoolTrue

\* discoverPool: the cidr declaration first, then the range declaration
discoverPool(cm, namespace) ==
    LET allowShare == getAllowShare(cm, namespace)
        cidr == getConfig(cm, namespace, "cidr")
        ipRange == getConfig(cm, namespace, "range")
    IN  IF cidr.ok
        THEN [ok |-> TRUE, pool |-> cidr.value, global |-> cidr.global,
              allowShare |-> allowShare]
        ELSE IF ipRange.ok
        THEN [ok |-> TRUE, pool |-> ipRange.value, global |-> ipRange.global,
              allowShare |-> allowShare]
        ELSE [ok |-> FALSE, pool |-> <<>>, global |-> FALSE,
              allowShare |-> allowShare]

\* discoverInterface: the namespace key, else the global key, else ""
discoverInterface(cm, svcNS) ==
    IF cm.data.iface[svcNS].set THEN cm.data.iface[svcNS].val
    ELSE IF cm.data.iface["global"].set THEN cm.data.iface["global"].val
    ELSE ""

\* ------------------------------------------------------------ shared VIPs
\* parseAddrList: every comma-separated text must parse; "" does not
parseAddrList(inputString) ==
    IF inputString = <<>>
       \/ \E i \in 1..Len(inputString) : ~ParseAddrOk(inputString[i])
    THEN Fail
    ELSE Ok(inputString)

PortsOf(svc) == SeqRange(svc.ports)

\* The effect of one address of one listed service on the port map
PortMapAdd(pm, ip, svc) ==
    IF svc.ports # <<>>
    THEN IF ip \in DOMAIN pm
         THEN [pm EXCEPT ![ip] = @ \cup PortsOf(svc)]
         ELSE pm @@ (ip :> PortsOf(svc))
    ELSE IF ip \in DOMAIN pm
         THEN [pm EXCEPT ![ip] = {0}]
         ELSE pm @@ (ip :> {0})

RECURSIVE PortMapOfAddrs(_, _, _, _)
PortMapOfAddrs(pm, addrs, svc, allowShare) ==
    IF addrs = <<>> THEN pm
    ELSE PortMapOfAddrs(
             IF allowShare /\ Is4(Head(addrs))
             THEN PortMapAdd(pm, Head(addrs), svc) ELSE pm,
             Tail(addrs), svc, allowShare)

EmptyPortMap == [ip \in {} |-> {}]
MapRes(ok, addrs, pm) == [ok |-> ok, addrs |-> addrs, servicePortMap |-> pm]

RECURSIVE MapServices(_, _, _, _)
MapServices(svcs, allowShare, addrs, pm) ==
    IF svcs = <<>> THEN MapRes(TRUE, addrs, pm)
    ELSE LET svc == Head(svcs)
         IN  IF ~svc.annSet
             THEN MapServices(Tail(svcs), allowShare, addrs, pm)
             ELSE LET parsed == parseAddrList(svc.ann)
                  IN  IF ~parsed.ok THEN MapRes(FALSE, {}, EmptyPortMap)
                      ELSE MapServices(Tail(svcs), allowShare,
                               addrs \cup SeqRange(parsed.val),
                               PortMapOfAddrs(pm, parsed.val, svc, allowShare))

\* mapImplementedServices: the in-use set and the per-IP port sets of the
\* listed services, or the parse error of one of their annotations
mapImplementedServices(svcs, allowShare) ==
    LET r == MapServices(svcs, allowShare, {}, EmptyPortMap)
    IN  [ok |-> r.ok,
         inUseSet |-> IPSetOf({Range(a.fam, a.n, a.n) : a \in r.addrs}),
         servicePortMap |-> r.servicePortMap]

\* discoverSharedVIPs without its skip of port sets that hold the sentinel 0
discoverSharedVIPs_SentinelIgnored(service, servicePortMap) ==
    LET fit == {ip \in DOMAIN servicePortMap :
                   PortsOf(service) \cap servicePortMap[ip] = {}}
    IN  IF fit = {} THEN {<<>>} ELSE {<<ip>> : ip \in fit}

\* discoverSharedVIPs returns the first IP of the map walk whose port set has
\* no 0 and is disjoint from the service's ports; the walk order of a Go map
\* is not fixed, so every such IP is a possible result, and "" when none is.
discoverSharedVIPs(service, servicePortMap) ==
    LET fit == {ip \in DOMAIN servicePortMap :
                   /\ 0 \notin servicePortMap[ip]
                   /\ PortsOf(service) \cap servicePortMap[ip] = {}}
    IN  IF fit = {} THEN {<<>>} ELSE {<<ip>> : ip \in fit}

\* ------------------------------------------------------------- discoverVIPs
VipRes(mgr, err, vips) == [mgr |-> mgr, err |-> err, vips |-> vips]

\* discoverAddress
discoverAddress(mgr, namespace, pool, inUseIPSet, cfg) ==
    IF pool = DHCPPool THEN AllocRes(mgr, "", DHCPAddr)
    ELSE IF ContainsSlash(pool)
    THEN FindAvailableHostFromCidr(mgr, namespace, pool, inUseIPSet, cfg)
    ELSE FindAvailableHostFromRange(mgr, namespace, pool, inUseIPSet, cfg)

\* What the stack functions return for the result r of discoverAddress
VipOfAlloc(r) ==
    IF r.err = "" THEN VipRes(r.mgr, "", <<r.vip>>) ELSE VipRes(r.mgr, r.err, <<>>)

\* discoverVIPsSingleStack
discoverVIPsSingleStack(mgr, namespace, ipv4Pool, ipv6Pool, preferred, inUseIPSet, cfg, ipFamilies) ==
    LET ipPool == IF ipFamilies = <<>>
                  THEN IF ipv4Pool = <<>> THEN ipv6Pool ELSE ipv4Pool
                  ELSE IF ipFamilies[1] = 6 THEN ipv6Pool ELSE ipv4Pool
    IN  IF ipPool = <<>> THEN VipRes(mgr, "nopool", <<>>)
        ELSE IF ipPool = ipv4Pool /\ preferred # <<>>
        THEN VipRes(mgr, "", preferred)
        ELSE VipOfAlloc(discoverAddress(mgr, namespace, ipPool, inUseIPSet, cfg))

\* Result of discoverFromPool: the registry it leaves, whether the pool was
\* out of IPs, another error, and the list of addresses so far
PoolRes(mgr, poolError, err, vipList) ==
    [mgr |-> mgr, poolError |-> poolError, err |-> err, vipList |-> vipList]

\* The end of discoverFromPool, for the result r of discoverAddress
FoundInPool(r, vipList) ==
    IF r.err = "" THEN PoolRes(r.mgr, FALSE, "", Append(vipList, r.vip))
    ELSE IF r.err = "OutOfIPs" THEN PoolRes(r.mgr, TRUE, "", vipList)
    ELSE PoolRes(r.mgr, FALSE, r.err, vipList)

\* discoverFromPool: appends to vipList, or reports the pool as out of IPs
discoverFromPool(mgr, namespace, pool, preferred, ipv4Pool, inUseIPSet, cfg, vipList) ==
    IF pool = <<>> THEN PoolRes(mgr, FALSE, "", vipList)
    ELSE IF pool = ipv4Pool /\ preferred # <<>>
    THEN PoolRes(mgr, FALSE, "", vipList \o preferred)
    ELSE FoundInPool(discoverAddress(mgr, namespace, pool, inUseIPSet, cfg), vipList)

\* The end of discoverVIPsDualStack, for the results p and s of the primary
\* and the secondary pool
DualStackResult(ipFamilyPolicy, p, s) ==
    IF p.err # "" THEN VipRes(p.mgr, p.err, <<>>)
    ELSE IF s.err # "" THEN VipRes(s.mgr, s.err, <<>>)
    ELSE IF ipFamilyPolicy = "PreferDualStack" /\ p.poolError /\ s.poolError
    THEN VipRes(s.mgr, "dualstack", <<>>)
    ELSE IF ipFamilyPolicy = "RequireDualStack" /\ (p.poolError \/ s.poolError)
    THEN VipRes(s.mgr, "dualstack", <<>>)
    ELSE VipRes(s.mgr, "", s.vipList)

\* discoverVIPsDualStack after the primary pool gave p
DualStackSecondary(namespace, secondaryPool, preferred, ipv4Pool, inUseIPSet, cfg, ipFamilyPolicy, p) ==
    DualStackResult(ipFamilyPolicy, p,
        discoverFromPool(p.mgr, namespace, secondaryPool, preferred, ipv4Pool,
                         inUseIPSet, cfg, p.vipList))

\* discoverVIPsDualStack
discoverVIPsDualStack(mgr, namespace, ipv4Pool, ipv6Pool, preferred, inUseIPSet, cfg, ipFamilyPolicy, ipFamilies) ==
    LET v6first == ipFamilies # <<>> /\ ipFamilies[1] = 6
        primaryPool == IF v6first THEN ipv6Pool ELSE ipv4Pool
        secondaryPool == IF v6first THEN ipv4Pool ELSE ipv6Pool
    IN  IF ipFamilyPolicy = "RequireDualStack" /\ (ipv4Pool = <<>> \/ ipv6Pool = <<>>)
        THEN VipRes(mgr, "dualstack", <<>>)
        ELSE DualStackSecondary(namespace, secondaryPool, preferred, ipv4Pool,
                 inUseIPSet, cfg, ipFamilyPolicy,
                 discoverFromPool(mgr, namespace, primaryPool, preferred, ipv4Pool,
                                  inUseIPSet, cfg, <<>>))

\* discoverVIPs after the pool was split by family
StackVIPs(mgr, namespace, split, preferred, inUseIPSet, cfg, ipFamilyPolicy, ipFamilies) ==
    IF ~split.ok THEN VipRes(mgr, "parse", <<>>)
    ELSE IF ipFamilyPolicy \in {"", "SingleStack"}
    THEN discoverVIPsSingleStack(mgr, namespace, split.ipv4, split.ipv6,
             preferred, inUseIPSet, cfg, ipFamilies)
    ELSE discoverVIPsDualStack(mgr, namespace, split.ipv4, split.ipv6,
             preferred, inUseIPSet, cfg, ipFamilyPolicy, ipFamilies)

\* discoverVIPs without the test for the DHCP declaration
discoverVIPs_NoDHCPTest(mgr, namespace, pool, preferred, inUseIPSet, cfg, ipFamilyPolicy, ipFamilies) ==
    IF pool = <<>> THEN VipRes(mgr, "nopool", <<>>)
    ELSE StackVIPs(mgr, namespace,
                   IF ContainsSlash(pool) THEN SplitCIDRsByIPFamily(pool)
                   ELSE SplitRangesByIPFamily(pool),
                   preferred, inUseIPSet, cfg, ipFamilyPolicy, ipFamilies)

\* discoverVIPs
discoverVIPs(mgr, namespace, pool, preferred, inUseIPSet, cfg, ipFamilyPolicy, ipFamilies) ==
    IF pool = DHCPPool THEN VipRes(mgr, "", <<DHCPAddr>>)
    ELSE IF pool = <<>> THEN VipRes(mgr, "nopool", <<>>)
    ELSE StackVIPs(mgr, namespace,
                   IF ContainsSlash(pool) THEN SplitCIDRsByIPFamily(pool)
                   ELSE SplitRangesByIPFamily(pool),
                   preferred, inUseIPSet, cfg, ipFamilyPolicy, ipFamilies)

\* ---------------------------------------------------------------- services
\* Service keys "namespace/name", in the order a List call returns them
KeySeq == <<"a/s1", "a/s2", "b/s1">>
Keys == SeqRange(KeySeq)
NsOf(k) == IF k = "b/s1" THEN "b" ELSE "a"

\* The class the controller was started with (DefaultLoadbalancerClass or
\* KUBEVIP_CUSTOM_LOADBALANCERCLASS_NAME)
LbClass == "kube-vip.io/kube-vip-class"

ImplementationLabelValue == "kube-vip"

\* The fields of a v1.Service the reconciler and the controller read or write.
\* implLabel is the value of label "implementation" ("" when absent),
\* legacyLabel the presence of label "ipam-address", annSet/ann the
\* annotation kube-vip.io/loadbalancerIPs, iface the annotation
\* kube-vip.io/serviceInterface, finalizer the presence of
\* service.kubernetes.io/load-balancer-cleanup, otherFinalizer the presence
\* of a finalizer of somebody else.  The last seven fields are read by
\* needsUpdate alone: sessionAffinityConfig is the timeout it carries (0 when
\* nil), status the addresses of status.loadBalancer.ingress.
NoSvc == [exists |-> FALSE, uid |-> 0, type |-> "", class |-> "",
          lbIP |-> <<>>, policy |-> "", families |-> <<>>, ports |-> <<>>,
          finalizer |-> FALSE, deleting |-> FALSE, implLabel |-> "",
          legacyLabel |-> FALSE, annSet |-> FALSE, ann |-> <<>>, iface |-> "",
          otherFinalizer |-> FALSE, sourceRanges |-> <<>>,
          sessionAffinity |-> "", sessionAffinityConfig |-> 0,
          externalIPs |-> <<>>, externalTrafficPolicy |-> "",
          healthCheckNodePort |-> 0, status |-> <<>>]

\* What a user sets when creating a service
NewSvc(uid, t) ==
    [NoSvc EXCEPT !.exists = TRUE, !.uid = uid, !.type = t.type,
                  !.class = t.class, !.lbIP = t.lbIP, !.policy = t.policy,
                  !.families = t.families, !.ports = t.ports,
                  !.legacyLabel = t.legacyLabel, !.annSet = t.annSet,
                  !.ann = t.ann, !.otherFinalizer = t.otherFinalizer]

VARIABLES
    store,      \* the API server's services: key -> service or NoSvc
    cache,      \* the shared informer's cache: key -> service or NoSvc
    cm,         \* the configuration document in the API server
    Manager,    \* ipam.Manager, the process-wide registry
    queue,      \* workqueue: keys waiting, in order
    dirty,      \* workqueue: keys that need processing
    delayed,    \* workqueue: keys waiting for their rate-limit delay
    failures,   \* rate limiter: keys it holds a failure count for
    run,        \* Controller.Run: its position, the cache-sync and stop signals
    pc,         \* the worker: phase, key and local variables of its reconcile
    budget,     \* remaining external operations of each kind
    scn,        \* the scenario that bounds this run
    hist        \* history of the current or last reconcile (not program state)

vars == <<store, cache, cm, Manager, queue, dirty, delayed, failures, run, pc, budget,
         scn, hist>>

\* Controller.Run once the cache has synchronised and the worker is started:
\* the state every specification but the start-up one lives in.
Serving == [phase |-> "serve", synced |-> TRUE, stopped |-> FALSE, worker |-> TRUE,
            shutdown |-> FALSE]

Idle == [phase |-> "idle", key |-> "", svc |-> NoSvc, vips |-> <<>>,
         iface |-> "", shared |-> <<>>]

\* hist records, of the reconcile in work or else the last one: its key, its
\* return ("" while in work, "ok" for nil, "err" for an error), the error, the
\* branch of syncService / syncLoadBalancer that returned, the API write calls
\* it issued,
\* whether it started on a cached copy equal to the stored object and nobody
\* but the worker has acted since it started, and whether it started right
\* after such a reconcile of the same key returned nil.
NoHist == [key |-> "", ret |-> "ok", err |-> "", path |-> "", writes |-> 0,
           clean |-> FALSE, second |-> FALSE]

\* hist after an operation of a user or of the operator
Disturbed == [hist EXCEPT !.clean = FALSE]

\* ------------------------------------------------------------ controller
\* HasLBFinalizer that never finds the finalizer
HasLBFinalizer_Never(svc) == FALSE

\* HasLBFinalizer that always finds the finalizer
HasLBFinalizer_Always(svc) == TRUE

\* servicehelper.HasLBFinalizer
HasLBFinalizer(svc) == svc.finalizer

\* wantsLoadBalancer
wantsLoadBalancer(svc) ==
    svc.exists /\ svc.type = "LoadBalancer" /\ svc.class = LbClass

\* needsCleanup
needsCleanup(svc) == HasLBFinalizer(svc) /\ svc.deleting

\* The annotations of a service, as the model carries them
Annotations(svc) == <<svc.annSet, svc.ann, svc.iface>>

\* needsUpdate that compares only what the reconcile reads
needsUpdate_ReadFieldsOnly(oldService, newService) ==
    \/ oldService.ports # newService.ports
    \/ oldService.lbIP # newService.lbIP
    \/ Annotations(oldService) # Annotations(newService)
    \/ Len(oldService.families) # Len(newService.families)

\* needsUpdate, in the order of its tests
needsUpdate(oldService, newService) ==
    \/ /\ wantsLoadBalancer(newService)
       /\ oldService.sourceRanges # newService.sourceRanges
    \/ oldService.ports # newService.ports
    \/ oldService.sessionAffinity # newService.sessionAffinity
    \/ oldService.sessionAffinityConfig # newService.sessionAffinityConfig
    \/ oldService.lbIP # newService.lbIP
    \/ Len(oldService.externalIPs) # Len(newService.externalIPs)
    \/ \E i \in 1..Len(oldService.externalIPs) :
          oldService.externalIPs[i] # newService.externalIPs[i]
    \/ Annotations(oldService) # Annotations(newService)
    \/ oldService.uid # newService.uid
    \/ oldService.externalTrafficPolicy # newService.externalTrafficPolicy
    \/ oldService.healthCheckNodePort # newService.healthCheckNodePort
    \/ Len(oldService.families) # Len(newService.families)

\* workqueue.Add: [queue, dirty] after adding k while `processing` is in work
QueueAdd_WhileProcessing(q, d, processing, k) ==
    IF k \in d THEN [queue |-> q, dirty |-> d]
    ELSE [queue |-> Append(q, k), dirty |-> d \cup {k}]

QueueAdd(q, d, processing, k) ==
    IF k \in d THEN [queue |-> q, dirty |-> d]
    ELSE IF k \in processing THEN [queue |-> q, dirty |-> d \cup {k}]
    ELSE [queue |-> Append(q, k), dirty |-> d \cup {k}]

Processing == IF pc.phase = "idle" THEN {} ELSE {pc.key}

\* The event handlers of newLoadbalancerClassServiceController
ShouldEnqueue(old, cur) ==
    IF ~cur.exists THEN FALSE
    ELSE IF ~old.exists \/ old.uid # cur.uid THEN wantsLoadBalancer(cur)
    ELSE wantsLoadBalancer(cur) /\ (needsUpdate(old, cur) \/ needsCleanup(cur))

\* The informer brings its cache up to the stored object and calls the
\* handlers
InformerDeliver(k) ==
    /\ cache[k] # store[k]
    /\ cache' = [cache EXCEPT ![k] = store[k]]
    /\ LET r == IF ShouldEnqueue(cache[k], store[k])
                THEN QueueAdd(queue, dirty, Processing, k)
                ELSE [queue |-> queue, dirty |-> dirty]
       IN  queue' = r.queue /\ dirty' = r.dirty
    /\ UNCHANGED <<store, cm, Manager, delayed, failures, pc, budget, scn, run, hist>>

\* AddRateLimited: the delay is over and the key is added
DelayedAdd(k) ==
    /\ k \in delayed
    /\ delayed' = delayed \ {k}
    /\ failures' = failures
    /\ LET r == QueueAdd(queue, dirty, Processing, k)
       IN  queue' = r.queue /\ dirty' = r.dirty
    /\ UNCHANGED <<store, cache, cm, Manager, pc, budget, scn, run, hist>>

\* processNextWorkItem whose Done does not add a key that became dirty during
\* the reconcile
Finish_DirtyDropped(k, err, path, w) ==
    /\ pc' = Idle
    /\ hist' = [hist EXCEPT !.ret = IF err # "" THEN "err" ELSE "ok",
                            !.err = err, !.path = path, !.writes = @ + w]
    /\ delayed' = IF err # "" THEN delayed \cup {k} ELSE delayed
    /\ failures' = IF err # "" THEN failures \cup {k} ELSE failures \ {k}
    /\ queue' = queue
    /\ dirty' = dirty

\* processNextWorkItem that calls Forget after an error as well, in place of
\* AddRateLimited
Finish_ForgetOnError(k, err, path, w) ==
    /\ pc' = Idle
    /\ hist' = [hist EXCEPT !.ret = IF err # "" THEN "err" ELSE "ok",
                            !.err = err, !.path = path, !.writes = @ + w]
    /\ delayed' = delayed
    /\ failures' = failures \ {k}
    /\ queue' = IF k \in dirty THEN Append(queue, k) ELSE queue
    /\ dirty' = dirty

\* processNextWorkItem after syncService returned: Forget or AddRateLimited,
\* then Done
Finish(k, err, path, w) ==
    /\ pc' = Idle
    /\ hist' = [hist EXCEPT !.ret = IF err # "" THEN "err" ELSE "ok",
                            !.err = err, !.path = path, !.writes = @ + w]
    /\ delayed' = IF err # "" THEN delayed \cup {k} ELSE delayed
    /\ failures' = IF err # "" THEN failures \cup {k} ELSE failures \ {k}
    /\ queue' = IF k \in dirty THEN Append(queue, k) ELSE queue
    /\ dirty' = dirty

\* processNextWorkItem up to the first store call: Get from the queue, then
\* syncService reads the service from the lister
WorkerGet ==
    /\ pc.phase = "idle"
    /\ queue # <<>>
    /\ LET k == Head(queue)
           started == [key |-> k, ret |-> "", err |-> "", path |-> "", writes |-> 0,
                       clean |-> cache[k] = store[k],
                       second |-> /\ hist.key = k /\ hist.ret = "ok"
                                  /\ hist.clean /\ cache[k] = store[k]]
       IN  /\ queue' = Tail(queue)
           /\ dirty' = dirty \ {k}
           /\ delayed' = delayed
           /\ IF cache[k].exists
              THEN /\ pc' = [Idle EXCEPT !.phase = "finalizer", !.key = k,
                                         !.svc = cache[k]]
                   /\ hist' = started
                   /\ failures' = failures
              ELSE /\ pc' = Idle
                   /\ hist' = [started EXCEPT !.ret = "ok", !.path = "gone"]
                   /\ failures' = failures \ {k}
    /\ UNCHANGED <<store, cache, cm, Manager, budget, scn, run>>

\* A patch that removes the finalizer and the address with it
removeFinalizer_AndAddress(service) ==
    [service EXCEPT !.finalizer = FALSE, !.annSet = FALSE, !.ann = <<>>, !.lbIP = <<>>]

\* removeFinalizer: the object after the patch that takes the finalizer out
removeFinalizer(service) == [service EXCEPT !.finalizer = FALSE]

\* The API server drops an object that is being deleted once it has no
\* finalizer left
Stored(svc) ==
    IF svc.deleting /\ ~svc.finalizer /\ ~svc.otherFinalizer THEN NoSvc ELSE svc

\* processServiceCreateOrUpdate up to syncLoadBalancer: removeFinalizer for a
\* service being deleted, addFinalizer otherwise (each one PatchService call)
ProcessFinalizer ==
    /\ pc.phase = "finalizer"
    /\ LET k == pc.key
           svc == pc.svc
       IN  IF svc.deleting
           THEN IF ~HasLBFinalizer(svc)
                THEN Finish(k, "", "delete", 0) /\ store' = store
                ELSE IF ~store[k].exists
                THEN Finish(k, "notfound", "delete", 1) /\ store' = store
                ELSE /\ store' = [store EXCEPT ![k] = Stored(removeFinalizer(@))]
                     /\ Finish(k, "", "delete", 1)
           ELSE IF HasLBFinalizer(svc)
                THEN /\ pc' = [pc EXCEPT !.phase = "sync"]
                     /\ UNCHANGED <<store, queue, dirty, delayed, failures, hist>>
                ELSE IF ~store[k].exists
                THEN Finish(k, "notfound", "finalizer", 1) /\ store' = store
                ELSE /\ store' = [store EXCEPT ![k].finalizer = TRUE]
                     /\ pc' = [pc EXCEPT !.phase = "sync"]
                     /\ hist' = [hist EXCEPT !.writes = @ + 1]
                     /\ UNCHANGED <<queue, dirty, delayed, failures>>
    /\ UNCHANGED <<cache, cm, Manager, budget, scn, run>>

\* ------------------------------------------------------------- reconciler
\* A listing answered from the informer's cache instead of the API server
ListServices_FromCache(st, global, namespace) ==
    LET keys == SelectSeq(KeySeq, LAMBDA k :
                    /\ cache[k].exists
                    /\ cache[k].implLabel = ImplementationLabelValue
                    /\ (global \/ NsOf(k) = namespace))
    IN  [i \in 1..Len(keys) |-> cache[keys[i]]]

\* Services("" or namespace).List with the label selector implementation=kube-vip
ListServices(st, global, namespace) ==
    LET keys == SelectSeq(KeySeq, LAMBDA k :
                    /\ st[k].exists
                    /\ st[k].implLabel = ImplementationLabelValue
                    /\ (global \/ NsOf(k) = namespace))
    IN  [i \in 1..Len(keys) |-> st[keys[i]]]

\* checkLegacyLoadBalancerIPAnnotation applies: spec.loadBalancerIP is set
IsLegacy(svc) == svc.lbIP # <<>>

\* The annotation is present and not empty
HasIPs(svc) == svc.annSet /\ svc.ann # <<>>

\* The legacy update that leaves the ipam-address label in place
LegacyUpdate_LabelKept(recent, svc) ==
    [recent EXCEPT !.annSet = TRUE, !.ann = svc.lbIP]

\* The update of checkLegacyLoadBalancerIPAnnotation on the re-read service
LegacyUpdate(recent, svc) ==
    [recent EXCEPT !.annSet = TRUE, !.ann = svc.lbIP, !.legacyLabel = FALSE]

\* The pre-assigned update that also copies the first address into
\* spec.loadBalancerIP
LabelUpdate_SetsLoadBalancerIP(recent) ==
    [recent EXCEPT !.implLabel = ImplementationLabelValue, !.lbIP = <<recent.ann[1]>>]

\* The update of the pre-assigned branch on the re-read service
LabelUpdate(recent) == [recent EXCEPT !.implLabel = ImplementationLabelValue]

\* The write-back with spec.loadBalancerIP taken from the end of the list
WriteBack_LastAddress(recent, loadBalancerIPs, loadbalancerInterface) ==
    [recent EXCEPT !.implLabel = ImplementationLabelValue,
                   !.annSet = TRUE,
                   !.ann = loadBalancerIPs,
                   !.lbIP = IF loadBalancerIPs = <<>> THEN <<>>
                            ELSE <<loadBalancerIPs[Len(loadBalancerIPs)]>>,
                   !.iface = IF loadbalancerInterface # ""
                             THEN loadbalancerInterface ELSE @]

\* The update of syncLoadBalancer's write-back on the re-read service
WriteBack(recent, loadBalancerIPs, loadbalancerInterface) ==
    [recent EXCEPT !.implLabel = ImplementationLabelValue,
                   !.annSet = TRUE,
                   !.ann = loadBalancerIPs,
                   !.lbIP = IF loadBalancerIPs = <<>> THEN <<>>
                            ELSE <<loadBalancerIPs[1]>>,
                   !.iface = IF loadbalancerInterface # ""
                             THEN loadbalancerInterface ELSE @]

\* getConfigMap, and createConfigMap when it is not found
ConfigMapRead(c) == IF c.present THEN c ELSE ConfigMapOf(EmptyData)

\* What syncLoadBalancer passes to discoverVIPs as preferredIpv4ServiceIP:
\* the results discoverSharedVIPs can return when sharing is allowed, "" else
PreferredChoices(allowShare, service, servicePortMap) ==
    IF allowShare THEN discoverSharedVIPs(service, servicePortMap) ELSE {<<>>}

\* syncLoadBalancer up to its write-back: the legacy migration, the
\* pre-assigned shortcut, or the allocation
SyncRead ==
    /\ pc.phase = "sync"
    /\ LET k == pc.key
           svc == pc.svc
       IN  IF IsLegacy(svc)
           THEN /\ IF HasIPs(svc)
                   THEN Finish(k, "", "legacy", 0) /\ store' = store
                   ELSE IF ~store[k].exists
                   THEN Finish(k, "notfound", "legacy", 0) /\ store' = store
                   ELSE /\ store' = [store EXCEPT ![k] = LegacyUpdate(@, svc)]
                        /\ Finish(k, "", "legacy", 1)
                /\ UNCHANGED <<cm, Manager>>
           ELSE IF HasIPs(svc)
           THEN /\ IF svc.implLabel = ImplementationLabelValue
                   THEN Finish(k, "", "preset", 0) /\ store' = store
                   ELSE IF ~store[k].exists
                   THEN Finish(k, "notfound", "preset", 0) /\ store' = store
                   ELSE /\ store' = [store EXCEPT ![k] = LabelUpdate(@)]
                        /\ Finish(k, "", "preset", 1)
                /\ UNCHANGED <<cm, Manager>>
           ELSE \E controllerCM \in {ConfigMapRead(cm)} :
                \E dp \in {discoverPool(controllerCM, NsOf(k))} :
                \E mapped \in {mapImplementedServices(
                                   ListServices(store, dp.global, NsOf(k)),
                                   dp.allowShare)} :
                /\ cm' = controllerCM
                /\ store' = store
                /\ IF ~dp.ok
                   THEN /\ Finish(k, "nopool", "alloc", IF cm.present THEN 0 ELSE 1)
                        /\ Manager' = Manager
                   ELSE IF ~mapped.ok
                   THEN /\ Finish(k, "parse", "alloc", IF cm.present THEN 0 ELSE 1)
                        /\ Manager' = Manager
                   ELSE
                   \E preferred \in PreferredChoices(dp.allowShare, svc,
                                                     mapped.servicePortMap) :
                   \E r \in {discoverVIPs(Manager, NsOf(k), dp.pool, preferred,
                                          mapped.inUseSet,
                                          GetKubevipLBConfig(controllerCM),
                                          svc.policy, svc.families)} :
                      /\ Manager' = r.mgr
                      /\ IF r.err # ""
                         THEN Finish(k, r.err, "alloc", IF cm.present THEN 0 ELSE 1)
                         ELSE /\ hist' = [hist EXCEPT !.writes =
                                          @ + IF cm.present THEN 0 ELSE 1]
                              /\ pc' = [pc EXCEPT
                                   !.phase = "write",
                                   !.vips = r.vips,
                                   !.shared = preferred,
                                   !.iface = IF r.vips # <<>>
                                             THEN discoverInterface(controllerCM,
                                                                    NsOf(k))
                                             ELSE ""]
                              /\ UNCHANGED <<queue, dirty, delayed, failures>>
    /\ UNCHANGED <<cache, budget, scn, run>>

\* syncLoadBalancer's write-back: re-read the service and update it
SyncWrite ==
    /\ pc.phase = "write"
    /\ LET k == pc.key
       IN  IF ~store[k].exists THEN Finish(k, "notfound", "alloc", 0) /\ store' = store
           ELSE /\ store' = [store EXCEPT ![k] = WriteBack(@, pc.vips, pc.iface)]
                /\ Finish(k, "", "alloc", 1)
    /\ UNCHANGED <<cache, cm, Manager, budget, scn, run>>

\* ------------------------------------------------------------ environment
Tpl(class, lbIP, policy, families, ports, legacyLabel, ann) ==
    [type |-> "LoadBalancer", class |-> class, lbIP |-> lbIP, policy |-> policy,
     families |-> families, ports |-> ports, legacyLabel |-> legacyLabel,
     annSet |-> ann # <<>>, ann |-> ann, otherFinalizer |-> FALSE]

\* The services users create
TplPlain == Tpl(LbClass, <<>>, "", <<>>, <<80>>, FALSE, <<>>)
TplAlt == Tpl(LbClass, <<>>, "SingleStack", <<4>>, <<8080>>, FALSE, <<>>)
TplNoPorts == Tpl(LbClass, <<>>, "", <<>>, <<>>, FALSE, <<>>)
TplPrefer == Tpl(LbClass, <<>>, "PreferDualStack", <<>>, <<443>>, FALSE, <<>>)
TplRequire == Tpl(LbClass, <<>>, "RequireDualStack", <<6, 4>>, <<80>>, FALSE, <<>>)
TplV6 == Tpl(LbClass, <<>>, "SingleStack", <<6>>, <<80>>, FALSE, <<>>)
TplLegacy == Tpl(LbClass, <<V4(10, 0, 0, 1)>>, "", <<>>, <<80>>, TRUE, <<>>)
TplPreset == Tpl(LbClass, <<>>, "", <<>>, <<8080>>, FALSE, <<V4(10, 0, 0, 255)>>)
TplPresetBad == Tpl(LbClass, <<>>, "", <<>>, <<8080>>, FALSE, <<BadAddr>>)
TplOther == Tpl("other", <<>>, "", <<>>, <<80>>, FALSE, <<>>)
TplHeld == [TplPlain EXCEPT !.otherFinalizer = TRUE]

\* The configuration documents the operator installs
DocRangeA ==
    ConfigMapOf([EmptyData EXCEPT
        !.range = [@ EXCEPT !["a"] =
            SetTo(<<RangeEntry(V4(10, 0, 0, 254), V4(10, 0, 1, 1))>>)]])
DocCidrGlobal ==
    ConfigMapOf([EmptyData EXCEPT
        !.cidr = [@ EXCEPT !["global"] = SetTo(<<Prefix(4, V4(10, 0, 2, 1).n, 30)>>)],
        !.searchOrder = "desc", !.skipEnd = "true"])
DocShare ==
    ConfigMapOf([EmptyData EXCEPT
        !.cidr = [@ EXCEPT !["global"] =
            SetTo(<<Prefix(4, V4(10, 0, 0, 0).n, 31), Prefix(6, 16, 127)>>)],
        !.share = [@ EXCEPT !["global"] = SetTo("true")],
        !.iface = [@ EXCEPT !["global"] = SetTo("eth1")]])
DocDual ==
    ConfigMapOf([EmptyData EXCEPT
        !.range = [@ EXCEPT !["global"] =
            SetTo(<<RangeEntry(V4(10, 0, 3, 255), V4(10, 0, 4, 1)),
                    RangeEntry(V6(16), V6(16))>>)]])
DocDHCP ==
    ConfigMapOf([EmptyData EXCEPT !.cidr = [@ EXCEPT !["global"] = SetTo(DHCPPool)]])

\* A scenario bounds one run: the keys users create, what they create there,
\* the documents the operator installs, and how many operations of each kind
\* the environment performs.
Scenario(keys, tpls, docs, creates, deletes, edits, cfgs) ==
    [keys |-> keys, tpls |-> tpls, docs |-> docs,
     budget |-> [creates |-> creates, deletes |-> deletes, edits |-> edits,
                 cfgs |-> cfgs]]

ScnBasic == Scenario({"a/s1", "a/s2"}, {TplPlain, TplLegacy, TplHeld},
                     {DocRangeA}, MaxCreates, MaxDeletes, 0, 0)
ScnEdit == Scenario({"a/s1", "b/s1"}, {TplPlain, TplLegacy, TplPreset},
                    {DocRangeA, DocCidrGlobal}, MaxCreates, 0, MaxEdits, 0)
ScnConfig == Scenario({"a/s1", "a/s2"}, {TplPlain},
                      {NoConfigMap, DocRangeA, DocCidrGlobal},
                      MaxCreates, 0, 0, MaxCfgChanges)
ScnShare == Scenario({"a/s1", "b/s1"}, {TplPlain, TplAlt, TplNoPorts, TplPreset},
                     {DocShare}, MaxCreates, 0, 0, 0)
ScnDual == Scenario({"a/s1"}, {TplPrefer, TplRequire, TplV6},
                    {NoConfigMap, DocDual, DocDHCP}, MaxCreates, 0, 0, MaxCfgChanges)
ScnOther == Scenario({"a/s1", "a/s2"}, {TplPlain, TplOther, TplPresetBad},
                     {DocRangeA}, MaxCreates, MaxDeletes, MaxEdits, 0)

ScnRetry == Scenario({"a/s1", "a/s2"}, {TplPlain, TplPresetBad},
                     {DocRangeA}, MaxCreates, 0, 0, 0)
ScnCleanup == Scenario({"a/s1"}, {TplPlain},
                       {DocRangeA}, MaxCreates, MaxDeletes, MaxEdits, 0)

Scenarios == {ScnBasic, ScnEdit, ScnConfig, ScnShare, ScnDual, ScnOther}

\* A user creates a service
UserCreate(k, t) ==
    /\ budget.creates > 0
    /\ ~store[k].exists
    /\ store' = [store EXCEPT ![k] = NewSvc(scn.budget.creates - budget.creates + 1, t)]
    /\ budget' = [budget EXCEPT !.creates = @ - 1]
    /\ hist' = Disturbed
    /\ UNCHANGED <<cache, cm, Manager, queue, dirty, delayed, failures, pc, scn, run>>

\* A user deletes a service: the API server sets deletionTimestamp, and
\* drops the object when no finalizer holds it
UserDelete(k) ==
    /\ budget.deletes > 0
    /\ store[k].exists /\ ~store[k].deleting
    /\ store' = [store EXCEPT ![k] = Stored([@ EXCEPT !.deleting = TRUE])]
    /\ budget' = [budget EXCEPT !.deletes = @ - 1]
    /\ hist' = Disturbed
    /\ UNCHANGED <<cache, cm, Manager, queue, dirty, delayed, failures, pc, scn, run>>

\* A user edits the ports of a service
UserEditPorts(k) ==
    /\ budget.edits > 0
    /\ store[k].exists
    /\ store' = [store EXCEPT ![k].ports =
                    IF @ = <<8080>> THEN <<80>> ELSE <<8080>>]
    /\ budget' = [budget EXCEPT !.edits = @ - 1]
    /\ hist' = Disturbed
    /\ UNCHANGED <<cache, cm, Manager, queue, dirty, delayed, failures, pc, scn, run>>

\* A user turns a service into a ClusterIP service (the class is cleared)
UserEditType(k) ==
    /\ budget.edits > 0
    /\ store[k].exists /\ store[k].type = "LoadBalancer"
    /\ store' = [store EXCEPT ![k].type = "ClusterIP", ![k].class = ""]
    /\ budget' = [budget EXCEPT !.edits = @ - 1]
    /\ hist' = Disturbed
    /\ UNCHANGED <<cache, cm, Manager, queue, dirty, delayed, failures, pc, scn, run>>

\* The operator replaces the configuration document
ConfigChange(d) ==
    /\ budget.cfgs > 0
    /\ d # cm /\ d.present
    /\ cm' = d
    /\ budget' = [budget EXCEPT !.cfgs = @ - 1]
    /\ hist' = Disturbed
    /\ UNCHANGED <<store, cache, Manager, queue, dirty, delayed, failures, pc, scn, run>>

\* ----------------------------------------------------------- specification
InitOf(scenarios) ==
    /\ scn \in scenarios
    /\ store = [k \in Keys |-> NoSvc]
    /\ cache = [k \in Keys |-> NoSvc]
    /\ cm \in scn.docs
    /\ Manager = <<>>
    /\ queue = <<>>
    /\ dirty = {}
    /\ delayed = {}
    /\ failures = {}
    /\ run = Serving
    /\ pc = Idle
    /\ budget = scn.budget
    /\ hist = NoHist

Init == InitOf(Scenarios)

Worker == WorkerGet \/ ProcessFinalizer \/ SyncRead \/ SyncWrite

Next ==
    \/ WorkerGet
    \/ ProcessFinalizer
    \/ SyncRead
    \/ SyncWrite
    \/ \E k \in Keys : InformerDeliver(k)
    \/ \E k \in Keys : DelayedAdd(k)
    \/ \E k \in scn.keys, t \in scn.tpls : UserCreate(k, t)
    \/ \E k \in Keys : UserDelete(k)
    \/ \E k \in Keys : UserEditPorts(k)
    \/ \E k \in Keys : UserEditType(k)
    \/ \E d \in scn.docs : ConfigChange(d)

Spec == Init /\ [][Next]_vars

\* The controller under a scheduler that keeps it running: the worker
\* goroutine is never starved (wait.Until in Run), the informer delivers
\* every change, and every rate-limit delay ends.
\* SyncRead changes pc whenever pc.phase = "sync", so WF_vars(SyncRead) says
\* that the worker does not stay in that phase for ever; it is written that
\* way.
Fairness ==
    /\ WF_vars(WorkerGet)
    /\ WF_vars(ProcessFinalizer)
    /\ []<>(pc.phase # "sync")
    /\ WF_vars(SyncWrite)
    /\ \A k \in Keys : WF_vars(InformerDeliver(k))
    /\ \A k \in Keys : WF_vars(DelayedAdd(k))

\* Users create services in one namespace and leave them alone
RetryInit == InitOf({ScnRetry})

RetryNext ==
    \/ WorkerGet
    \/ ProcessFinalizer
    \/ SyncRead
    \/ SyncWrite
    \/ \E k \in Keys : InformerDeliver(k)
    \/ \E k \in Keys : DelayedAdd(k)
    \/ \E k \in scn.keys, t \in scn.tpls : UserCreate(k, t)

RetrySpec == RetryInit /\ [][RetryNext]_vars /\ Fairness

\* A user creates, retypes and deletes one service
CleanupInit == InitOf({ScnCleanup})

CleanupNext ==
    \/ WorkerGet
    \/ ProcessFinalizer
    \/ SyncRead
    \/ SyncWrite
    \/ \E k \in Keys : InformerDeliver(k)
    \/ \E k \in Keys : DelayedAdd(k)
    \/ \E k \in scn.keys, t \in scn.tpls : UserCreate(k, t)
    \/ \E k \in Keys : UserDelete(k)
    \/ \E k \in Keys : UserEditType(k)

CleanupSpec == CleanupInit /\ [][CleanupNext]_vars /\ Fairness

\* ------------------------------------------------ the allocator by itself
\* Calls of discoverVIPs and of FindFreeAddress with arguments of the callers'
\* kinds, one after the other in one process, so that ipam.Manager carries
\* over from call to call as it does between reconciles.

\* The largest in-use set the calls are given
MaxInUse == 2

\* Pool declarations: 10.0.2.5/30; 10.0.2.8/30,10.0.2.12/30;
\* 10.0.2.16/31,10.0.2.20/32; 10.0.0.0/31,::10/127; 10.0.0.254-10.0.1.1;
\* 10.0.3.255-10.0.4.1,::10-::11; ::20-::21; a text that is no pool
PoolCidr30 == <<Prefix(4, V4(10, 0, 2, 5).n, 30)>>
PoolCidrAdjacent ==
    <<Prefix(4, V4(10, 0, 2, 8).n, 30), Prefix(4, V4(10, 0, 2, 12).n, 30)>>
PoolCidrSmall ==
    <<Prefix(4, V4(10, 0, 2, 16).n, 31), Prefix(4, V4(10, 0, 2, 20).n, 32)>>
PoolCidrDual == <<Prefix(4, V4(10, 0, 0, 0).n, 31), Prefix(6, 16, 127)>>
PoolRange == <<RangeEntry(V4(10, 0, 0, 254), V4(10, 0, 1, 1))>>
PoolRangeDual ==
    <<RangeEntry(V4(10, 0, 3, 255), V4(10, 0, 4, 1)), RangeEntry(V6(16), V6(17))>>
PoolRangeV6 == <<RangeEntry(V6(32), V6(33))>>
PoolBad == <<BadEntry>>

AllocPools ==
    {PoolCidr30, PoolCidrAdjacent, PoolCidrSmall, PoolCidrDual, PoolRange,
     PoolRangeDual, PoolRangeV6, PoolBad, DHCPPool}

\* The addresses one entry of a declaration covers
EntryAddrs(e) ==
    IF e.t = "cidr"
    THEN {[fam |-> e.fam, n |-> x] : x \in RangeOfPrefix(e).from..RangeOfPrefix(e).to}
    ELSE IF e.t = "range"
    THEN {[fam |-> e.from.fam, n |-> x] : x \in e.from.n..e.to.n}
    ELSE {}

DeclaredAddrs(pool) == UNION {EntryAddrs(pool[i]) : i \in 1..Len(pool)}

\* The in-use sets a call is given: addresses of the pool held by services
InUseSets(pool) ==
    {S \in SUBSET DeclaredAddrs(pool) : Cardinality(S) <= MaxInUse}

\* The IPSet mapImplementedServices builds from the addresses in use
InUseSetOf(S) == IPSetOf({Range(a.fam, a.n, a.n) : a \in S})

\* preferredIpv4ServiceIP: "" or an IPv4 address some service holds
PreferredOf(S) == {<<>>} \cup {<<a>> : a \in {b \in S : Is4(b)}}

\* search-order and skip-end-ips-in-cidr
AllocFlags == [desc : BOOLEAN, skip : BOOLEAN]

\* spec.ipFamilyPolicy and spec.ipFamilies of the service
Fam(policy, families) == [policy |-> policy, families |-> families]
AllocFamilies ==
    {Fam("", <<>>), Fam("", <<4>>), Fam("", <<6>>), Fam("SingleStack", <<6>>),
     Fam("PreferDualStack", <<>>), Fam("PreferDualStack", <<4>>),
     Fam("PreferDualStack", <<6, 4>>), Fam("RequireDualStack", <<>>),
     Fam("RequireDualStack", <<4, 6>>), Fam("RequireDualStack", <<6, 4>>)}

\* One call of discoverVIPs for namespace "a"; pc keeps the arguments, the
\* registry the call found and what it returned
CallDiscoverVIPs ==
    /\ pc = Idle
    /\ \E pool \in AllocPools, cfg \in AllocFlags, f \in AllocFamilies :
       \E inUse \in InUseSets(pool) :
       \E preferred \in PreferredOf(inUse) :
       \E r \in {discoverVIPs(Manager, "a", pool, preferred, InUseSetOf(inUse),
                              cfg, f.policy, f.families)} :
          /\ pc' = [phase |-> "returned", pool |-> pool, cfg |-> cfg,
                    policy |-> f.policy, families |-> f.families,
                    inUse |-> inUse, preferred |-> preferred,
                    before |-> Manager, err |-> r.err, vips |-> r.vips]
          /\ Manager' = r.mgr
    /\ UNCHANGED <<store, cache, cm, queue, dirty, delayed, failures, budget, scn, run, hist>>

\* What FindAvailableHostFromCidr / FindAvailableHostFromRange build for a pool
BuiltPool(pool, cfg) ==
    IF ContainsSlash(pool) THEN buildHostsFromCidr(pool, cfg)
    ELSE buildAddressesFromRange(pool)

\* One call of FindFreeAddress on the IPSet built from a declaration
CallFindFreeAddress ==
    /\ pc = Idle
    /\ \E pool \in AllocPools, cfg \in AllocFlags :
       \E inUse \in InUseSets(pool) :
       \E built \in {BuiltPool(pool, cfg)} :
          /\ built.ok
          /\ pc' = [phase |-> "found", poolIPSet |-> built.val, cfg |-> cfg,
                    inUse |-> inUse,
                    addr |-> FindFreeAddress(built.val, InUseSetOf(inUse), cfg)]
    /\ UNCHANGED <<store, cache, cm, Manager, queue, dirty, delayed, failures, budget, scn, run, hist>>

\* The caller goes on
CallReturn ==
    /\ pc.phase \in {"returned", "found"}
    /\ pc' = Idle
    /\ UNCHANGED <<store, cache, cm, Manager, queue, dirty, delayed, failures, budget, scn, run, hist>>

ScnAlloc == Scenario({}, {}, {NoConfigMap}, 0, 0, 0, 0)

AllocInit == InitOf({ScnAlloc})

AllocNext == CallDiscoverVIPs \/ CallFindFreeAddress \/ CallReturn

AllocSpec == AllocInit /\ [][AllocNext]_vars

\* ------------------------------------------------- the resolver by itself
\* Calls of getConfig, discoverPool and discoverInterface on documents in
\* which every key of namespace "a" and every global key is absent, present
\* and empty, or present with a value.
PoolKeyValues(pool) == {Unset, SetTo(<<>>), SetTo(pool)}
TextKeyValues(texts) == {UnsetText} \cup {SetTo(s) : s \in texts}

\* A document with the given keys for namespace "a" and for global
ResolveDoc(cn, cg, rn, rg, sn, sg, fn, fg) ==
    ConfigMapOf([EmptyData EXCEPT
        !.cidr = [@ EXCEPT !["a"] = cn, !["global"] = cg],
        !.range = [@ EXCEPT !["a"] = rn, !["global"] = rg],
        !.share = [@ EXCEPT !["a"] = sn, !["global"] = sg],
        !.iface = [@ EXCEPT !["a"] = fn, !["global"] = fg]])

ResolveDocs ==
    {ResolveDoc(cn, cg, rn, rg, sn, sg, fn, fg) :
        cn \in PoolKeyValues(PoolCidr30), cg \in PoolKeyValues(PoolCidrSmall),
        rn \in PoolKeyValues(PoolRange), rg \in PoolKeyValues(PoolRangeV6),
        sn \in TextKeyValues({"", "true", "false"}), sg \in TextKeyValues({"true", "0"}),
        fn \in TextKeyValues({"", "eth0"}), fg \in TextKeyValues({"", "eth1"})}

ConfigNames == {"cidr", "range", "allow-share"}

CallGetConfig ==
    /\ pc = Idle
    /\ \E namespace \in Namespaces, name \in ConfigNames :
          pc' = [phase |-> "resolved", call |-> "getConfig", namespace |-> namespace,
                 name |-> name, res |-> getConfig(cm, namespace, name)]
    /\ UNCHANGED <<store, cache, cm, Manager, queue, dirty, delayed, failures, budget, scn, run, hist>>

CallDiscoverPool ==
    /\ pc = Idle
    /\ \E namespace \in Namespaces :
          pc' = [phase |-> "resolved", call |-> "discoverPool", namespace |-> namespace,
                 name |-> "", res |-> discoverPool(cm, namespace)]
    /\ UNCHANGED <<store, cache, cm, Manager, queue, dirty, delayed, failures, budget, scn, run, hist>>

CallDiscoverInterface ==
    /\ pc = Idle
    /\ \E svcNS \in Namespaces :
          pc' = [phase |-> "resolved", call |-> "discoverInterface", namespace |-> svcNS,
                 name |-> "", res |-> discoverInterface(cm, svcNS)]
    /\ UNCHANGED <<store, cache, cm, Manager, queue, dirty, delayed, failures, budget, scn, run, hist>>

ResolveReturn ==
    /\ pc.phase = "resolved"
    /\ pc' = Idle
    /\ UNCHANGED <<store, cache, cm, Manager, queue, dirty, delayed, failures, budget, scn, run, hist>>

ResolveInit ==
    /\ scn = ScnAlloc
    /\ store = [k \in Keys |-> NoSvc]
    /\ cache = [k \in Keys |-> NoSvc]
    /\ cm \in ResolveDocs
    /\ Manager = <<>>
    /\ queue = <<>>
    /\ dirty = {}
    /\ delayed = {}
    /\ failures = {}
    /\ run = Serving
    /\ pc = Idle
    /\ budget = scn.budget
    /\ hist = NoHist

ResolveNext == CallGetConfig \/ CallDiscoverPool \/ CallDiscoverInterface \/ ResolveReturn

ResolveSpec == ResolveInit /\ [][ResolveNext]_vars

\* ------------------------------------------ two callers of syncLoadBalancer
\* With the class controller enabled, syncLoadBalancer is called from two
\* goroutines of one process: the class controller's worker, for services of
\* the configured class, and the cloud-provider service controller through
\* EnsureLoadBalancer, for LoadBalancer services without a class.  Here pc
\* maps each caller to its position in a call for a single-stack service with
\* no address yet, and the allocator's registry access is taken in the two
\* steps its code has: the walk over Manager, then the rebuild or append and
\* the search.
Callers == {"class", "tree"}

TplNoClass == Tpl("", <<>>, "", <<>>, <<8080>>, FALSE, <<>>)

ScnPair == Scenario({"a/s1", "a/s2", "b/s1"}, {TplPlain, TplNoClass},
                    {DocRangeA, DocCidrGlobal}, MaxCreates, 0, 0, 0)

\* The services a caller reconciles
Serves(c, svc) ==
    /\ svc.exists /\ svc.type = "LoadBalancer" /\ ~svc.deleting
    /\ IF c = "class" THEN svc.class = LbClass ELSE svc.class = ""

\* The pool discoverVIPsSingleStack chooses from the split declaration
SingleStackPool(split, ipFamilies) ==
    IF ipFamilies = <<>>
    THEN IF split.ipv4 = <<>> THEN split.ipv6 ELSE split.ipv4
    ELSE IF ipFamilies[1] = 6 THEN split.ipv6 ELSE split.ipv4

\* The caller's position after syncLoadBalancer has listed the services and
\* discoverVIPs has chosen the pool: returned with an error, at the write-back
\* (DHCP or a shared address), or about to call the allocator
AfterListing(k, svc, controllerCM, dp, inUseSet, preferred, split) ==
    LET ipPool == SingleStackPool(split, svc.families)
        at == [phase |-> "write", key |-> k, svc |-> svc, vips |-> <<>>,
               iface |-> discoverInterface(controllerCM, NsOf(k)), shared |-> preferred,
               ipPool |-> ipPool, inUseSet |-> inUseSet,
               cfg |-> GetKubevipLBConfig(controllerCM), x |-> 0, same |-> FALSE]
    IN  IF dp.pool = DHCPPool THEN [at EXCEPT !.vips = <<DHCPAddr>>]
        ELSE IF dp.pool = <<>> \/ ~split.ok \/ ipPool = <<>> THEN Idle
        ELSE IF ipPool = split.ipv4 /\ preferred # <<>> THEN [at EXCEPT !.vips = preferred]
        ELSE [at EXCEPT !.phase = "lookup"]

\* syncLoadBalancer from its entry to the call of the allocator
SyncBegin(c, k) ==
    /\ pc[c] = Idle
    /\ Serves(c, store[k])
    /\ ~IsLegacy(store[k]) /\ ~HasIPs(store[k])
    /\ store[k].policy \in {"", "SingleStack"}
    /\ \E controllerCM \in {ConfigMapRead(cm)} :
       \E dp \in {discoverPool(controllerCM, NsOf(k))} :
       \E mapped \in {mapImplementedServices(ListServices(store, dp.global, NsOf(k)), dp.allowShare)} :
          /\ cm' = controllerCM
          /\ IF ~dp.ok \/ ~mapped.ok THEN pc' = pc
             ELSE \E preferred \in PreferredChoices(dp.allowShare, store[k], mapped.servicePortMap) :
                  \E split \in {IF ContainsSlash(dp.pool) THEN SplitCIDRsByIPFamily(dp.pool)
                                ELSE SplitRangesByIPFamily(dp.pool)} :
                     pc' = [pc EXCEPT ![c] = AfterListing(k, store[k], controllerCM, dp,
                                                          mapped.inUseSet, preferred, split)]
    /\ UNCHANGED <<store, cache, Manager, queue, dirty, delayed, failures, budget, scn, run, hist>>

\* FindAvailableHostFromCidr / FindAvailableHostFromRange: the walk over
\* Manager for the namespace's entry and the comparison of its declaration
RegistryLookup(c) ==
    /\ pc[c].phase = "lookup"
    /\ \E x \in {ManagerIndex(Manager, NsOf(pc[c].key))} :
          pc' = [pc EXCEPT ![c].phase = "commit", ![c].x = x,
                           ![c].same = /\ x # 0
                                       /\ IF ContainsSlash(pc[c].ipPool)
                                          THEN Manager[x].cidr = pc[c].ipPool
                                          ELSE Manager[x].ipRange = pc[c].ipPool]
    /\ UNCHANGED <<store, cache, cm, Manager, queue, dirty, delayed, failures, budget, scn, run, hist>>

\* The registry after the rebuild of entry x or the append of a new entry
Registered(mgr, x, namespace, ipPool, poolIPSet) ==
    IF x # 0
    THEN IF ContainsSlash(ipPool)
         THEN [mgr EXCEPT ![x].poolIPSet = poolIPSet, ![x].cidr = ipPool]
         ELSE [mgr EXCEPT ![x].poolIPSet = poolIPSet, ![x].ipRange = ipPool]
    ELSE IF ContainsSlash(ipPool)
         THEN Append(mgr, ipManager(namespace, ipPool, <<>>, poolIPSet))
         ELSE Append(mgr, ipManager(namespace, <<>>, ipPool, poolIPSet))

\* FindAvailableHostFromCidr / FindAvailableHostFromRange after the walk: the
\* rebuild of the entry found or the append of a new one, and FindFreeAddress
RegistryCommit(c) ==
    /\ pc[c].phase = "commit"
    /\ \E built \in {BuiltPool(pc[c].ipPool, pc[c].cfg)} :
       \E mgr \in {IF pc[c].same \/ ~built.ok THEN Manager
                   ELSE Registered(Manager, pc[c].x, NsOf(pc[c].key), pc[c].ipPool, built.val)} :
       \E addr \in {IF pc[c].same
                    THEN FindFreeAddress(Manager[pc[c].x].poolIPSet, pc[c].inUseSet, pc[c].cfg)
                    ELSE IF ~built.ok THEN Fail
                    ELSE FindFreeAddress(built.val, pc[c].inUseSet, pc[c].cfg)} :
          /\ Manager' = mgr
          /\ pc' = [pc EXCEPT ![c] = IF addr.ok
                                     THEN [@ EXCEPT !.phase = "write", !.vips = <<addr.val>>]
                                     ELSE Idle]
    /\ UNCHANGED <<store, cache, cm, queue, dirty, delayed, failures, budget, scn, run, hist>>

\* syncLoadBalancer's write-back: re-read the service and update it
SyncWriteBack(c) ==
    /\ pc[c].phase = "write"
    /\ store' = IF store[pc[c].key].exists
                THEN [store EXCEPT ![pc[c].key] = WriteBack(@, pc[c].vips, pc[c].iface)]
                ELSE store
    /\ pc' = [pc EXCEPT ![c] = Idle]
    /\ UNCHANGED <<cache, cm, Manager, queue, dirty, delayed, failures, budget, scn, run, hist>>

PairInit ==
    /\ scn = ScnPair
    /\ store = [k \in Keys |-> NoSvc]
    /\ cache = [k \in Keys |-> NoSvc]
    /\ cm \in scn.docs
    /\ Manager = <<>>
    /\ queue = <<>>
    /\ dirty = {}
    /\ delayed = {}
    /\ failures = {}
    /\ run = Serving
    /\ pc = [c \in Callers |-> Idle]
    /\ budget = scn.budget
    /\ hist = NoHist

PairNext ==
    \/ \E c \in Callers, k \in Keys : SyncBegin(c, k)
    \/ \E c \in Callers : RegistryLookup(c)
    \/ \E c \in Callers : RegistryCommit(c)
    \/ \E c \in Callers : SyncWriteBack(c)
    \/ \E k \in scn.keys, t \in scn.tpls : UserCreate(k, t)

PairSpec == PairInit /\ [][PairNext]_vars

\* ----------------------------------------- the write-back under conflicts
\* The three updates of syncLoadBalancer run inside retry.RetryOnConflict with
\* retry.DefaultRetry: the function is called up to DefaultRetrySteps times
\* while the Update is refused with a conflict, and any other error ends the
\* loop.  Here the Get and the Update of one attempt are two steps, and other
\* clients write to the service between them.  pc holds the call: the
\* service the caller passed, the addresses and interface to write, the
\* object the Get returned with its resourceVersion, and the attempts made.
DefaultRetrySteps == 5

\* Which of the three updates a call with this service reaches ("" for none)
UpdateKind(service) ==
    IF IsLegacy(service) THEN IF HasIPs(service) THEN "" ELSE "legacy"
    ELSE IF HasIPs(service)
         THEN IF service.implLabel = ImplementationLabelValue THEN "" ELSE "preset"
         ELSE "alloc"

\* The addresses a call of the third update writes
ConflictVIPs == {<<V4(10, 0, 0, 254)>>, <<V4(10, 0, 1, 0), V6(1)>>}

\* The resourceVersion of the only service of these runs: every write of
\* another client takes from the budget
ResourceVersion == budget

\* The object an attempt sends to Update, made from the cached copy the
\* caller passed
Updated_FromCachedCopy(recentService, call) ==
    IF call.kind = "legacy" THEN LegacyUpdate(call.svc, call.svc)
    ELSE IF call.kind = "preset" THEN LabelUpdate(call.svc)
    ELSE WriteBack(call.svc, call.vips, call.iface)

\* The object an attempt sends to Update, made from the object its Get
\* returned
Updated(recentService, call) ==
    IF call.kind = "legacy" THEN LegacyUpdate(recentService, call.svc)
    ELSE IF call.kind = "preset" THEN LabelUpdate(recentService)
    ELSE WriteBack(recentService, call.vips, call.iface)

\* syncLoadBalancer reaches one of its updates
UpdateBegin(k) ==
    /\ pc = Idle
    /\ store[k].exists /\ UpdateKind(store[k]) # ""
    /\ \E vips \in IF UpdateKind(store[k]) = "alloc" THEN ConflictVIPs ELSE {<<>>} :
          pc' = [phase |-> "get", key |-> k, svc |-> store[k],
                 kind |-> UpdateKind(store[k]), vips |-> vips,
                 iface |-> IF UpdateKind(store[k]) = "alloc"
                           THEN discoverInterface(cm, NsOf(k)) ELSE "",
                 recent |-> NoSvc, rv |-> ResourceVersion, attempts |-> 0, err |-> ""]
    /\ UNCHANGED <<store, cache, cm, Manager, queue, dirty, delayed, failures, budget, scn, run, hist>>

\* One attempt, first half: Services(namespace).Get
UpdateGet ==
    /\ pc.phase = "get"
    /\ pc' = IF store[pc.key].exists
             THEN [pc EXCEPT !.phase = "update", !.recent = store[pc.key],
                             !.rv = ResourceVersion]
             ELSE [pc EXCEPT !.phase = "returned", !.err = "notfound"]
    /\ UNCHANGED <<store, cache, cm, Manager, queue, dirty, delayed, failures, budget, scn, run, hist>>

\* One attempt, second half: Services(namespace).Update, refused with a
\* conflict when the object has changed since the Get
UpdatePut ==
    /\ pc.phase = "update"
    /\ IF ~store[pc.key].exists
       THEN /\ pc' = [pc EXCEPT !.phase = "returned", !.err = "notfound"]
            /\ store' = store
       ELSE IF pc.rv # ResourceVersion
       THEN /\ pc' = IF pc.attempts + 1 >= DefaultRetrySteps
                     THEN [pc EXCEPT !.phase = "returned", !.err = "conflict",
                                     !.attempts = @ + 1]
                     ELSE [pc EXCEPT !.phase = "get", !.attempts = @ + 1]
            /\ store' = store
       ELSE /\ store' = [store EXCEPT ![pc.key] = Updated(pc.recent, pc)]
            /\ pc' = [pc EXCEPT !.phase = "returned", !.attempts = @ + 1]
    /\ UNCHANGED <<cache, cm, Manager, queue, dirty, delayed, failures, budget, scn, run, hist>>

\* syncLoadBalancer returns
UpdateReturn ==
    /\ pc.phase = "returned"
    /\ pc' = Idle
    /\ UNCHANGED <<store, cache, cm, Manager, queue, dirty, delayed, failures, budget, scn, run, hist>>

ScnConflict == Scenario({"a/s1"}, {TplPlain, TplLegacy, TplPreset}, {DocRangeA, DocShare},
                        1, MaxDeletes, DefaultRetrySteps, 0)

ConflictInit ==
    /\ scn = ScnConflict
    /\ store = [k \in Keys |-> NoSvc]
    /\ cache = [k \in Keys |-> NoSvc]
    /\ cm \in scn.docs
    /\ Manager = <<>>
    /\ queue = <<>>
    /\ dirty = {}
    /\ delayed = {}
    /\ failures = {}
    /\ run = Serving
    /\ pc = Idle
    /\ budget = scn.budget
    /\ hist = NoHist

ConflictNext ==
    \/ \E k \in scn.keys : UpdateBegin(k)
    \/ UpdateGet
    \/ UpdatePut
    \/ UpdateReturn
    \/ \E k \in scn.keys, t \in scn.tpls : UserCreate(k, t)
    \/ \E k \in scn.keys : UserEditPorts(k)
    \/ \E k \in scn.keys : UserEditType(k)
    \/ \E k \in scn.keys : UserDelete(k)

ConflictSpec == ConflictInit /\ [][ConflictNext]_vars

\* ------------------------------------------------- a panic in the worker
\* The worker goroutine is started by Run with go wait.Until(c.runWorker,
\* ...); neither runWorker, processNextWorkItem nor syncService recovers.  A
\* panic below syncService unwinds through processNextWorkItem's deferred
\* Done and reaches wait.Until's HandleCrash, which logs it and, with
\* apimachinery's default ReallyCrash, panics again: the process ends.  Run's
\* own deferred HandleCrash belongs to another goroutine.
Crashed == [Idle EXCEPT !.phase = "crashed"]

\* The process runs
Alive == pc.phase # "crashed"

\* A panic while a key is being reconciled
WorkerPanics ==
    /\ pc.phase \in {"finalizer", "sync", "write"}
    /\ pc' = Crashed
    /\ queue' = IF pc.key \in dirty THEN Append(queue, pc.key) ELSE queue
    /\ hist' = [hist EXCEPT !.ret = "panic", !.path = "panic"]
    /\ UNCHANGED <<store, cache, cm, Manager, dirty, delayed, failures, budget, scn, run>>

PanicInit == InitOf({ScnRetry})

PanicNext ==
    \/ WorkerGet
    \/ ProcessFinalizer
    \/ SyncRead
    \/ SyncWrite
    \/ WorkerPanics
    \/ \E k \in Keys : Alive /\ InformerDeliver(k)
    \/ \E k \in Keys : Alive /\ DelayedAdd(k)
    \/ \E k \in scn.keys, t \in scn.tpls : UserCreate(k, t)

PanicSpec == PanicInit /\ [][PanicNext]_vars

\* ------------------------------------------------------------ the start-up
\* Controller.Run as Initialize starts it: the goroutine is launched before
\* the shared informer is started, so the handlers fill the queue while Run
\* still waits for the cache.
Starting == [phase |-> "wait", synced |-> FALSE, stopped |-> FALSE, worker |-> FALSE,
             shutdown |-> FALSE]

\* A WaitForNamedCacheSync that does not wait for the cache
WaitForNamedCacheSync_NoWait(synced, stopped) ==
    IF stopped THEN "stopped" ELSE "synced"

\* cache.WaitForNamedCacheSync polls the informer's HasSynced and the stop
\* channel: the synchronised cache is tested first
WaitForNamedCacheSync(synced, stopped) ==
    IF synced THEN "synced" ELSE IF stopped THEN "stopped" ELSE "poll"

\* The informer has delivered its initial list: HasSynced turns true
CacheSynced ==
    /\ ~run.synced
    /\ cache = store
    /\ run' = [run EXCEPT !.synced = TRUE]
    /\ UNCHANGED <<store, cache, cm, Manager, queue, dirty, delayed, failures, pc, budget, scn, hist>>

\* The stop channel is closed
StopSignal ==
    /\ ~run.stopped
    /\ run' = [run EXCEPT !.stopped = TRUE]
    /\ UNCHANGED <<store, cache, cm, Manager, queue, dirty, delayed, failures, pc, budget, scn, hist>>

\* Run leaves WaitForNamedCacheSync: it starts the worker, or returns and its
\* deferred ShutDown runs
RunWaitForSync ==
    /\ run.phase = "wait"
    /\ LET r == WaitForNamedCacheSync(run.synced, run.stopped)
       IN  /\ r # "poll"
           /\ run' = IF r = "synced"
                     THEN [run EXCEPT !.phase = "serve", !.worker = TRUE]
                     ELSE [run EXCEPT !.phase = "returned", !.shutdown = TRUE]
    /\ UNCHANGED <<store, cache, cm, Manager, queue, dirty, delayed, failures, pc, budget, scn, hist>>

\* Run receives from the stop channel and returns: the deferred ShutDown runs
RunStopped ==
    /\ run.phase = "serve"
    /\ run.stopped
    /\ run' = [run EXCEPT !.phase = "returned", !.shutdown = TRUE]
    /\ UNCHANGED <<store, cache, cm, Manager, queue, dirty, delayed, failures, pc, budget, scn, hist>>

StartInit ==
    /\ scn = ScnRetry
    /\ store = [k \in Keys |-> NoSvc]
    /\ cache = [k \in Keys |-> NoSvc]
    /\ cm \in scn.docs
    /\ Manager = <<>>
    /\ queue = <<>>
    /\ dirty = {}
    /\ delayed = {}
    /\ failures = {}
    /\ run = Starting
    /\ pc = Idle
    /\ budget = scn.budget
    /\ hist = NoHist

\* The worker goroutine exists once Run has started it; a queue that was shut
\* down ignores every add, and the model delivers nothing more to it.
StartNext ==
    \/ CacheSynced
    \/ StopSignal
    \/ RunWaitForSync
    \/ RunStopped
    \/ run.worker /\ WorkerGet
    \/ run.worker /\ ProcessFinalizer
    \/ run.worker /\ SyncRead
    \/ run.worker /\ SyncWrite
    \/ \E k \in Keys : ~run.shutdown /\ InformerDeliver(k)
    \/ \E k \in Keys : ~run.shutdown /\ DelayedAdd(k)
    \/ \E k \in scn.keys, t \in scn.tpls : UserCreate(k, t)

StartSpec == StartInit /\ [][StartNext]_vars

\* -------------------------------------------------------- the update event
\* One update event of the informer: the cache holds the old object, the
\* store the new one, and InformerDeliver calls UpdateFunc on the pair.
ScnEvent == Scenario({"a/s1"}, {TplPlain, TplOther, TplNoClass, TplRequire},
                     {DocRangeA}, 0, 0, 0, 0)

\* The fields an update changes
EditKinds ==
    {"none", "ports", "sessionAffinity", "sessionAffinityConfig", "sourceRanges",
     "loadBalancerIP", "externalIPs", "externalTrafficPolicy",
     "healthCheckNodePort", "ipFamilies", "annotations", "labels", "uid",
     "status", "type", "class", "finalizer", "deletionTimestamp"}

\* The object after an update of one field
Edited(svc, f) ==
    CASE f = "ports" -> [svc EXCEPT !.ports = <<8443>>]
      [] f = "sessionAffinity" -> [svc EXCEPT !.sessionAffinity = "ClientIP"]
      [] f = "sessionAffinityConfig" -> [svc EXCEPT !.sessionAffinityConfig = 10800]
      [] f = "sourceRanges" -> [svc EXCEPT !.sourceRanges = <<"10.0.0.0/8">>]
      [] f = "loadBalancerIP" -> [svc EXCEPT !.lbIP = <<V4(10, 0, 0, 9)>>]
      [] f = "externalIPs" -> [svc EXCEPT !.externalIPs = <<"192.0.2.2">>]
      [] f = "externalTrafficPolicy" -> [svc EXCEPT !.externalTrafficPolicy = "Local"]
      [] f = "healthCheckNodePort" -> [svc EXCEPT !.healthCheckNodePort = 30000]
      [] f = "ipFamilies" -> [svc EXCEPT !.families = <<4>>]
      [] f = "annotations" -> [svc EXCEPT !.iface = "eth1"]
      [] f = "labels" -> [svc EXCEPT !.implLabel = ImplementationLabelValue]
      [] f = "uid" -> [svc EXCEPT !.uid = @ + 1]
      [] f = "status" -> [svc EXCEPT !.status = <<V4(10, 0, 0, 9)>>]
      [] f = "type" -> [svc EXCEPT !.type = IF @ = "LoadBalancer" THEN "ClusterIP"
                                            ELSE "LoadBalancer"]
      [] f = "class" -> [svc EXCEPT !.class = "other"]
      [] f = "finalizer" -> [svc EXCEPT !.finalizer = TRUE]
      [] f = "deletionTimestamp" -> [svc EXCEPT !.deleting = TRUE]
      [] OTHER -> svc

\* The finalizers and deletion mark an object of the store can carry
Lifecycles ==
    {<<FALSE, FALSE, FALSE>>, <<TRUE, FALSE, FALSE>>, <<TRUE, TRUE, FALSE>>,
     <<FALSE, TRUE, TRUE>>}

\* The old objects
EventBase(t, l, x, ty) ==
    [NewSvc(1, t) EXCEPT !.finalizer = l[1], !.deleting = l[2],
                         !.otherFinalizer = l[3], !.externalIPs = x, !.type = ty]

EventInit ==
    /\ scn = ScnEvent
    /\ \E t \in scn.tpls, l \in Lifecycles, x \in {<<>>, <<"192.0.2.1">>},
          ty \in {"LoadBalancer", "ClusterIP"}, e1 \in EditKinds, e2 \in EditKinds :
          /\ cache = [k \in Keys |-> IF k \in scn.keys THEN EventBase(t, l, x, ty)
                                     ELSE NoSvc]
          /\ store = [k \in Keys |-> IF k \in scn.keys
                                     THEN Stored(Edited(Edited(cache[k], e1), e2))
                                     ELSE NoSvc]
    /\ cm \in scn.docs
    /\ Manager = <<>>
    /\ queue = <<>>
    /\ dirty = {}
    /\ delayed = {}
    /\ failures = {}
    /\ run = Serving
    /\ pc = Idle
    /\ budget = scn.budget
    /\ hist = NoHist

EventNext == \E k \in Keys : InformerDeliver(k)

EventSpec == EventInit /\ [][EventNext]_vars

\* --------------------------------------------------------------- properties
\* The address a lies inside an entry of the pool that document c declares
\* for the namespace
InDeclaredPool(a, c, namespace) ==
    LET dp == discoverPool(c, namespace)
    IN  /\ c.present /\ dp.ok
        /\ \E i \in 1..Len(dp.pool) :
              LET e == dp.pool[i]
              IN  \/ /\ PrefixOk(e) /\ e.fam = a.fam
                     /\ RangeOfPrefix(e).from <= a.n /\ a.n <= RangeOfPrefix(e).to
                  \/ /\ RangeEntryOk(e) /\ e.from.fam = a.fam
                     /\ e.from.n <= a.n /\ a.n <= e.to.n

\* This step is the return of a reconcile
Returns == hist.ret = "" /\ hist'.ret # "" /\ hist'.key = hist.key

\* This step is the successful return of a reconcile whose last call wrote
\* the loadbalancerIPs annotation of its service
AnnotationWritten ==
    /\ Returns /\ hist'.ret = "ok"
    /\ hist'.writes > hist.writes
    /\ hist'.path \in {"legacy", "alloc"}

\* C1: whenever a reconcile writes the loadbalancerIPs annotation of a
\* service, every address of the written value lies in the pool that the
\* configuration document declares for the service's namespace at that
\* moment.
C1_WrittenVIPsInDeclaredPool ==
    [][AnnotationWritten =>
         LET k == hist.key
         IN  \A i \in 1..Len(store'[k].ann) :
                InDeclaredPool(store'[k].ann[i], cm, NsOf(k))]_vars

\* C2: once a service carries a non-empty loadbalancerIPs annotation, no
\* reconcile of that service changes the annotation's value while the
\* service exists.
C2_AssignedVIPIsStable ==
    [][\A k \in Keys :
         /\ hist'.key = k /\ hist'.ret # "" /\ hist.ret = ""
         /\ HasIPs(store[k])
         /\ store'[k].exists /\ store'[k].uid = store[k].uid
         => store'[k].annSet /\ store'[k].ann = store[k].ann]_vars

\* The keys of the stored services the allocation for a service of the
\* namespace lists under document c: labelled, and in the pool's scope
InScopeKeys(st, c, namespace) ==
    {k \in Keys : /\ st[k].exists
                  /\ st[k].implLabel = ImplementationLabelValue
                  /\ (discoverPool(c, namespace).global \/ NsOf(k) = namespace)}

\* The in-scope services whose annotation lists the address x
HoldersOf(x, st, c, namespace) ==
    {k \in InScopeKeys(st, c, namespace) :
        st[k].annSet /\ \E i \in 1..Len(st[k].ann) : st[k].ann[i] = x}

\* This step is syncLoadBalancer reaching its write-back with a shared VIP
SharedVIPChosen ==
    pc.phase = "sync" /\ pc'.phase = "write" /\ pc'.shared # <<>>

\* C3: when an existing address x is returned as the shared VIP for service
\* S, no labelled service in scope that holds x binds a port S requests, and
\* none of them declares zero ports.
C3_SharingSafety ==
    [][SharedVIPChosen =>
         \A k \in HoldersOf(pc'.shared[1], store, cm', NsOf(pc.key)) :
            /\ PortsOf(store[k]) \cap PortsOf(pc.svc) = {}
            /\ store[k].ports # <<>>]_vars

\* A reconcile is about to write a shared VIP that another stored service
\* holds
C3_Witness ==
    /\ pc.phase = "write" /\ pc.shared # <<>>
    /\ pc.vips = pc.shared
    /\ \E k \in HoldersOf(pc.shared[1], store, cm, NsOf(pc.key)) :
          k # pc.key /\ store[k].ports # pc.svc.ports

\* C4: after a reconcile of a service that returns success, the stored
\* service has a non-empty loadbalancerIPs annotation and the label
\* implementation=kube-vip.  (Stated for reconciles that ran undisturbed on
\* an up-to-date copy and reached syncLoadBalancer.)
C4_SuccessLeavesAnnotationAndLabel ==
    [][/\ Returns /\ hist'.ret = "ok" /\ hist'.clean
       /\ hist'.path \in {"legacy", "preset", "alloc"}
       /\ store'[hist.key].exists
       => /\ HasIPs(store'[hist.key])
          /\ store'[hist.key].implLabel = ImplementationLabelValue]_vars

\* C5: in the state a reconcile leaves, the service carries the label
\* implementation=kube-vip if and only if its loadbalancerIPs annotation is
\* non-empty.  (Stated for reconciles that ran undisturbed on an up-to-date
\* copy and reached syncLoadBalancer.)
C5_LabelIffAnnotation ==
    [][/\ Returns /\ hist'.clean
       /\ hist'.path \in {"legacy", "preset", "alloc"}
       /\ store'[hist.key].exists
       => (store'[hist.key].implLabel = ImplementationLabelValue
             <=> HasIPs(store'[hist.key]))]_vars

\* C6: a reconcile of a service that starts directly after a successful
\* reconcile of the same service, on an up-to-date copy and with no operation
\* of a user or of the operator in between or meanwhile, issues no write
\* call: no update or patch of the service, no creation of the configuration
\* document.
C6_SecondReconcileWritesNothing ==
    hist.second /\ hist.clean => hist.writes = 0

\* The second reconcile of a service that the first one allocated an address
\* has returned
C6_Witness ==
    /\ hist.second /\ hist.clean /\ hist.ret = "ok"
    /\ HasIPs(store[hist.key]) /\ store[hist.key].finalizer
    /\ store[hist.key].implLabel = ImplementationLabelValue
    /\ store[hist.key].lbIP = <<store[hist.key].ann[1]>>

\* The addresses that the annotations of the stored in-scope services list
HeldAddrs(st, c, namespace) ==
    UNION {SeqRange(st[k].ann) : k \in InScopeKeys(st, c, namespace)}

\* The set of those addresses
InUseOfStore(st, c, namespace) ==
    IPSetOf({Range(a.fam, a.n, a.n) : a \in HeldAddrs(st, c, namespace)})

\* The pool set of the namespace's registry entry
Searched(mgr, namespace) == mgr[ManagerIndex(mgr, namespace)].poolIPSet

\* This step is syncLoadBalancer reaching its write-back with one address
\* that a single-stack search of the pool found
FreshSingle ==
    /\ pc.phase = "sync" /\ pc'.phase = "write"
    /\ pc'.shared = <<>> /\ Len(pc'.vips) = 1
    /\ pc.svc.policy \in {"", "SingleStack"}
    /\ discoverPool(cm', NsOf(pc.key)).pool # DHCPPool

\* The search of the pool set the step searched, with the in-use set taken
\* from the services stored at the step
SearchOverStore ==
    FindFreeAddress(Searched(Manager', NsOf(hist.key)),
                    InUseOfStore(store, cm', NsOf(hist.key)),
                    GetKubevipLBConfig(cm'))

\* C9: the in-use set of an allocation is what the store holds at that
\* moment and nothing else: the address found is the first address of the
\* searched pool that no stored labelled service in scope holds, so an
\* address whose service is gone from the store is free for the very next
\* reconcile, and the search reports no free address only when the stored
\* services hold them all.
C9_InUseSetIsTheStore ==
    [][/\ FreshSingle => SearchOverStore.ok /\ pc'.vips = <<SearchOverStore.val>>
       /\ Returns /\ hist'.err = "OutOfIPs" => ~SearchOverStore.ok]_vars

\* A reconcile is about to write an address that a service now gone from the
\* store held, and which the informer's cache still shows as held
C9_Witness ==
    /\ pc.phase = "write" /\ pc.shared = <<>> /\ Len(pc.vips) = 1
    /\ \E k \in Keys \ {pc.key} :
          /\ ~store[k].exists
          /\ cache[k].exists /\ cache[k].implLabel = ImplementationLabelValue
          /\ cache[k].ann = pc.vips

\* The last octet of an IPv4 address is 0 or 255
EdgeV4(a) == a.fam = 4 /\ (a.n % 256) \in {0, 255}

\* This step is syncLoadBalancer reaching its write-back
AddressesReturned == pc.phase = "sync" /\ pc'.phase = "write"

\* C10, as the specification states it: every IPv4 address returned for a
\* service has a last octet other than 0 and 255, whatever the path by which
\* it was chosen.
C10_NoEdgeAddressReturned ==
    [][AddressesReturned =>
         \A i \in 1..Len(pc'.vips) : ~EdgeV4(pc'.vips[i])]_vars

\* C10, amended: every IPv4 address that the search of a pool returns has a
\* last octet other than 0 and 255; the DHCP sentinel 0.0.0.0 and an address
\* reused as a shared VIP are returned as they are.
C10_NoEdgeAddressFromSearch ==
    [][/\ AddressesReturned
       /\ discoverPool(cm', NsOf(pc.key)).pool # DHCPPool
       => \A i \in 1..Len(pc'.vips) :
             <<pc'.vips[i]>> # pc'.shared => ~EdgeV4(pc'.vips[i])]_vars

\* A reconcile is about to write an IPv4 address found by a search that
\* passed over the free edge address just below it in the declared pool
C10_Witness ==
    /\ pc.phase = "write" /\ pc.shared = <<>> /\ pc.vips # <<>>
    /\ LET v == pc.vips[1]
           below == [fam |-> 4, n |-> v.n - 1]
       IN  /\ v.fam = 4 /\ EdgeV4(below)
           /\ InDeclaredPool(below, cm, NsOf(pc.key))
           /\ below \notin HeldAddrs(store, cm, NsOf(pc.key))

\* The addresses of the pool that document c declares for the namespace
PoolAddrs(c, namespace) ==
    LET dp == discoverPool(c, namespace)
    IN  UNION {IF PrefixOk(dp.pool[i])
               THEN {[fam |-> dp.pool[i].fam, n |-> n] :
                        n \in RangeOfPrefix(dp.pool[i]).from ..
                              RangeOfPrefix(dp.pool[i]).to}
               ELSE IF RangeEntryOk(dp.pool[i])
               THEN {[fam |-> dp.pool[i].from.fam, n |-> n] :
                        n \in dp.pool[i].from.n .. dp.pool[i].to.n}
               ELSE {} : i \in 1..Len(dp.pool)}

\* The declared pool of the namespace has an address that is no edge address
\* and that no stored labelled service in scope holds
PoolHasFree(namespace) ==
    \E a \in PoolAddrs(cm, namespace) :
        ~EdgeV4(a) /\ a \notin HeldAddrs(store, cm, namespace)

\* The service stored under k is one the claim is about: of type
\* LoadBalancer with the configured class, not being deleted, without
\* addresses, while its pool has a free address
AwaitsAddress(k) ==
    /\ wantsLoadBalancer(store[k]) /\ ~store[k].deleting
    /\ ~HasIPs(store[k])
    /\ PoolHasFree(NsOf(k))

\* C7: every service of type LoadBalancer with the configured class that is
\* added while its pool has a free address eventually carries a non-empty
\* loadbalancerIPs annotation (or is deleted, retyped, or finds its pool
\* full), when the worker keeps running.
C7_EligibleServiceGetsAddress ==
    \A k \in Keys : AwaitsAddress(k) ~> ~AwaitsAddress(k)

\* The service stored under k is being deleted and the finalizer holds it
HeldByFinalizer(k) ==
    store[k].exists /\ store[k].deleting /\ store[k].finalizer

\* C8: every service that carries the cleanup finalizer and has its
\* deletionTimestamp set eventually has the finalizer removed by the
\* controller.
C8_FinalizerEventuallyRemoved ==
    \A k \in Keys : HeldByFinalizer(k) ~> ~HeldByFinalizer(k)

\* The IPv4 address a is the network address or the broadcast address of a
\* prefix shorter than /31 written in the declaration
EdgeOfDeclaredPrefix(a, pool) ==
    \E i \in 1..Len(pool) :
        /\ pool[i].t = "cidr" /\ pool[i].fam = 4 /\ pool[i].bits <= 30
        /\ a.n \in {RangeOfPrefix(pool[i]).from, RangeOfPrefix(pool[i]).to}

\* The addresses a call of discoverVIPs returned that it searched a pool for
\* (all but the preferred shared address)
SearchedVIPs ==
    {pc.vips[i] : i \in {j \in 1..Len(pc.vips) : <<pc.vips[j]>> # pc.preferred}}

\* C11: when skip-end-ips-in-cidr is true at the time of an allocation from
\* a CIDR declaration, no allocated IPv4 address is the network address or
\* the broadcast address of a prefix written in the declaration (prefixes of
\* length /31 and /32 excepted).
C11_SkipEndTrimsDeclaredPrefixes ==
    (/\ pc.phase = "returned" /\ pc.err = ""
     /\ pc.cfg.skip /\ ContainsSlash(pc.pool) /\ pc.pool # DHCPPool)
    => \A a \in SearchedVIPs : Is4(a) => ~EdgeOfDeclaredPrefix(a, pc.pool)

\* This step is the write-back of syncLoadBalancer on a stored service
WriteBackStep ==
    /\ pc.phase = "write" /\ store[pc.key].exists
    /\ Returns /\ hist'.ret = "ok"

\* strings.Split(s, ",")[0] of a stored annotation
FirstAddress(ann) == IF ann = <<>> THEN <<>> ELSE <<ann[1]>>

\* C12: whenever a reconcile writes spec.loadBalancerIP, the written value is
\* the first comma-separated address of the loadbalancerIPs annotation that
\* the same write stores on the service.
C12_LoadBalancerIPIsFirstAddress ==
    [][WriteBackStep =>
        /\ store'[pc.key].annSet
        /\ store'[pc.key].lbIP = FirstAddress(store'[pc.key].ann)]_vars

\* A write-back of two addresses has been stored
C12_Witness ==
    /\ hist.ret = "ok" /\ hist.path = "alloc" /\ hist.writes > 0
    /\ hist.key \in Keys /\ store[hist.key].exists
    /\ Len(store[hist.key].ann) = 2
    /\ store[hist.key].lbIP = <<store[hist.key].ann[1]>>

\* A call of discoverVIPs for a dual-stack service returned two addresses
DualStackPair ==
    /\ pc.phase = "returned" /\ pc.err = ""
    /\ pc.policy \in {"PreferDualStack", "RequireDualStack"}
    /\ Len(pc.vips) = 2

\* The family the service names first, IPv4 when it names none
FirstFamily(families) == IF families = <<>> THEN 4 ELSE families[1]
OtherFamily(fam) == IF fam = 4 THEN 6 ELSE 4

\* C13: a dual-stack result of two addresses lists the address of the family
\* ipFamilies[0] first and the address of the other family second; with no
\* ipFamilies the IPv4 address comes first.
C13_DualStackOrderFollowsFamilies ==
    DualStackPair =>
        /\ pc.vips[1].fam = FirstFamily(pc.families)
        /\ pc.vips[2].fam = OtherFamily(FirstFamily(pc.families))

\* The declaration of the call has an entry of the family
FamilyDeclared(fam) ==
    \E i \in 1..Len(pc.pool) :
        \/ pc.pool[i].t = "cidr" /\ pc.pool[i].fam = fam
        \/ pc.pool[i].t = "range" /\ pc.pool[i].from.fam = fam

\* The addresses of the family that the declaration of the call offers and
\* that a search may return: not in use, for IPv4 not ending in 0 or 255 and,
\* with skip-end-ips-in-cidr, not an end of a declared prefix
FreeAddrs(fam) ==
    {a \in DeclaredAddrs(pc.pool) :
        /\ a.fam = fam /\ a \notin pc.inUse
        /\ fam = 4 => /\ ~EdgeV4(a)
                      /\ ~(pc.cfg.skip /\ EdgeOfDeclaredPrefix(a, pc.pool))}

\* The pool of the family yields an address: a free one, or for IPv4 the
\* preferred shared address
Yields(fam) ==
    /\ FamilyDeclared(fam)
    /\ FreeAddrs(fam) # {} \/ (fam = 4 /\ pc.preferred # <<>>)

\* A call of discoverVIPs with a declaration that parses and is not the DHCP
\* declaration returned
ReturnedFromPools ==
    /\ pc.phase = "returned"
    /\ pc.pool # DHCPPool /\ pc.pool # PoolBad

\* The call succeeded with exactly one address, of the family
SingleOf(fam) == pc.err = "" /\ Len(pc.vips) = 1 /\ pc.vips[1].fam = fam

\* C14: for a PreferDualStack service, when exactly one of the IPv4 and IPv6
\* pools yields no address (exhausted or not declared) the allocation
\* succeeds with the single address of the other pool; when neither yields
\* an address the allocation returns an error.
C14_PreferDualStackFallsBack ==
    (ReturnedFromPools /\ pc.policy = "PreferDualStack") =>
        /\ (Yields(4) /\ ~Yields(6)) => SingleOf(4)
        /\ (Yields(6) /\ ~Yields(4)) => SingleOf(6)
        /\ (~Yields(4) /\ ~Yields(6)) => pc.err # ""

\* The call returned exactly one IPv4 address and one IPv6 address
OneOfEachFamily ==
    /\ Len(pc.vips) = 2
    /\ {pc.vips[1].fam, pc.vips[2].fam} = {4, 6}

\* C15: for a RequireDualStack service (the DHCP declaration aside) the
\* allocation succeeds only if an IPv4 pool and an IPv6 pool are declared and
\* each yields an address, and the result then holds exactly one address of
\* each family; in every other case it returns an error.
C15_RequireDualStackNeedsBoth ==
    (/\ pc.phase = "returned" /\ pc.pool # DHCPPool
     /\ pc.policy = "RequireDualStack" /\ pc.err = "")
    => Yields(4) /\ Yields(6) /\ OneOfEachFamily

\* The family a single-stack service is served from: ipFamilies[0], and with
\* no ipFamilies IPv4 if the declaration has an IPv4 pool, else IPv6
ChosenFamily ==
    IF pc.families # <<>> THEN pc.families[1]
    ELSE IF FamilyDeclared(4) THEN 4 ELSE 6

\* The address comes from the pool of the family: it is an address of the
\* declaration, of that family (the preferred shared address is one)
FromPoolOf(fam, a) == a.fam = fam /\ a \in DeclaredAddrs(pc.pool)

\* C16: for a service with no IP-family policy or with SingleStack the
\* address comes from the pool of the family ipFamilies[0], with no
\* ipFamilies from the IPv4 pool if one is declared and else from the IPv6
\* pool; if the chosen family has no pool the allocation fails, even when
\* the other family has free addresses.
C16_SingleStackPoolChoice ==
    (ReturnedFromPools /\ pc.policy \in {"", "SingleStack"}) =>
        /\ ~FamilyDeclared(ChosenFamily) => pc.err # ""
        /\ pc.err = "" => /\ Len(pc.vips) = 1
                          /\ FromPoolOf(ChosenFamily, pc.vips[1])

\* The addresses of the searched pool
FoundPoolAddrs ==
    UNION {{[fam |-> pc.poolIPSet[i].fam, n |-> x] : x \in pc.poolIPSet[i].from..pc.poolIPSet[i].to} :
              i \in 1..Len(pc.poolIPSet)}

\* Those neither in use nor, for IPv4, ending in octet 0 or 255
FoundCandidates ==
    {a \in FoundPoolAddrs : a \notin pc.inUse /\ (a.fam = 4 => a.n % 256 \notin {0, 255})}

\* netip.Addr.Less: IPv4 before IPv6, then by value
AddrLess(a, b) == a.fam < b.fam \/ (a.fam = b.fam /\ a.n < b.n)

LowestCandidate == CHOOSE a \in FoundCandidates : \A b \in FoundCandidates : b = a \/ AddrLess(a, b)

HighestCandidate == CHOOSE a \in FoundCandidates : \A b \in FoundCandidates : b = a \/ AddrLess(b, a)

\* C17: FindFreeAddress returns the lowest address of the pool, the highest
\* when the search order is desc, that is not in the in-use set and, for
\* IPv4, does not end in octet 0 or 255; it reports that no address is
\* available exactly when the pool has no such address.
C17_FindFreeIsFirstCandidate ==
    pc.phase = "found" =>
        IF FoundCandidates = {} THEN ~pc.addr.ok
        ELSE /\ pc.addr.ok
             /\ pc.addr.val = IF pc.cfg.desc THEN HighestCandidate ELSE LowestCandidate

\* A search that has to pass over an edge address and an address in use
C17_Witness ==
    /\ pc.phase = "found"
    /\ pc.addr.ok
    /\ Cardinality(FoundCandidates) >= 2
    /\ \E a, b \in FoundPoolAddrs \ FoundCandidates :
          /\ a \in pc.inUse
          /\ b \notin pc.inUse
          /\ IF pc.cfg.desc THEN AddrLess(pc.addr.val, a) /\ AddrLess(pc.addr.val, b)
             ELSE AddrLess(a, pc.addr.val) /\ AddrLess(b, pc.addr.val)

\* The same call made on an empty registry
SameCallAfresh ==
    discoverVIPs(<<>>, "a", pc.pool, pc.preferred, InUseSetOf(pc.inUse), pc.cfg, pc.policy, pc.families)

\* C18: the addresses chosen are a function only of the pool declaration,
\* the in-use set and the flags passed in the call: a call returns what the
\* same call returns on an empty registry, whatever calls came before it.
C18_AllocatorDeterminism ==
    pc.phase = "returned" =>
        /\ (pc.err = "") = (SameCallAfresh.err = "")
        /\ pc.vips = SameCallAfresh.vips

\* C19: when the resolved pool is exactly 0.0.0.0/32, a service that reaches
\* allocation is assigned the literal address 0.0.0.0, whatever its family
\* policy and ipFamilies, the in-use set, the shared address and the edge
\* filter; services that already hold 0.0.0.0 do not prevent it.
C19_DHCPSentinelAssignsZero ==
    (pc.phase = "returned" /\ pc.pool = DHCPPool) =>
        /\ pc.err = ""
        /\ pc.vips = <<DHCPAddr>>

\* 0.0.0.0 returned to a RequireDualStack service while another service
\* holds it, with the edge trimming switched on
C19_Witness ==
    /\ pc.phase = "returned" /\ pc.pool = DHCPPool
    /\ pc.policy = "RequireDualStack" /\ pc.families # <<>>
    /\ DHCPAddr \in pc.inUse /\ pc.cfg.skip
    /\ pc.vips = <<DHCPAddr>>

\* This step is a write of the worker that gives the stored service a
\* finalizer, an addresses annotation or the implementation label
WorkerGives ==
    /\ pc.phase # "idle" /\ pc' # pc
    /\ store'[pc.key].exists
    /\ \/ store'[pc.key].finalizer /\ ~store[pc.key].finalizer
       \/ store'[pc.key].annSet /\ (~store[pc.key].annSet \/ store'[pc.key].ann # store[pc.key].ann)
       \/ store'[pc.key].implLabel = ImplementationLabelValue /\ store[pc.key].implLabel # ImplementationLabelValue

\* C20: in load-balancer-class mode the worker gives an address, the label
\* or the finalizer only to a service that, as read when it is reconciled,
\* has type LoadBalancer and the configured class; a service with no class
\* or another class never receives them.
C20_OnlyClassServicesAreServed ==
    [][WorkerGives => wantsLoadBalancer(pc.svc)]_vars

\* This step is the return of a reconcile that failed because the document
\* declares no pool for the service's namespace, the reconcile having started
\* on the stored object with nobody but the worker acting since
FailsOnInput ==
    /\ Returns /\ hist'.ret = "err" /\ hist'.err = "nopool"
    /\ hist.clean

\* C21: when a reconcile fails with an input error (here: an empty or
\* missing pool), the stored service is what it was when the reconcile
\* started, finalizers, labels and annotations included, and the key is
\* re-queued.
C21_InputErrorWritesNothing ==
    [][FailsOnInput => /\ store'[pc.key] = pc.svc
                       /\ pc.key \in delayed']_vars

\* This step completes the reconcile of a service read with
\* spec.loadBalancerIP set and no or an empty loadbalancerIPs annotation,
\* the service still being stored
LegacyMigrationStep ==
    /\ pc.phase = "sync" /\ Returns
    /\ pc.svc.lbIP # <<>> /\ ~HasIPs(pc.svc)
    /\ store[pc.key].exists

\* C22: reconciling a service whose spec.loadBalancerIP is set and whose
\* loadbalancerIPs annotation is missing or empty leaves the stored service
\* with the annotation equal to that spec.loadBalancerIP (its own, when
\* nobody else wrote in between) and without the ipam-address label,
\* allocates nothing and returns without error.
C22_LegacyMigration ==
    [][LegacyMigrationStep =>
        /\ store'[pc.key].annSet
        /\ store'[pc.key].ann = pc.svc.lbIP
        /\ hist.clean => store'[pc.key].ann = store'[pc.key].lbIP
        /\ ~store'[pc.key].legacyLabel
        /\ Manager' = Manager /\ cm' = cm
        /\ hist'.ret = "ok" /\ hist'.path = "legacy"]_vars

\* A service that carried the ipam-address label has been migrated
C22_Witness ==
    /\ hist.ret = "ok" /\ hist.path = "legacy" /\ hist.writes > 0
    /\ hist.key \in Keys /\ store[hist.key].exists
    /\ store[hist.key].lbIP # <<>>
    /\ store[hist.key].annSet /\ store[hist.key].ann = store[hist.key].lbIP
    /\ ~store[hist.key].legacyLabel
    /\ cache[hist.key].legacyLabel

\* This step completes syncLoadBalancer for a service read with a non-empty
\* loadbalancerIPs annotation and no spec.loadBalancerIP, the service still
\* being stored
PreAssignedStep ==
    /\ pc.phase = "sync" /\ Returns
    /\ pc.svc.lbIP = <<>> /\ HasIPs(pc.svc)
    /\ store[pc.key].exists

KeysLookedAt ==
    IF pc.call = "discoverInterface" THEN cm.data.iface ELSE KeysNamed(cm, pc.name)

NsKey == KeysLookedAt[pc.namespace]

GlobalKey == KeysLookedAt["global"]

\* A call of getConfig or discoverInterface has returned
ResolvedOne == pc.phase = "resolved" /\ pc.call \in {"getConfig", "discoverInterface"}

\* C24: for each key base (cidr, range, allow-share, interface), when the
\* namespace key is present its value is used and the result is marked
\* non-global, also when the global key is present too; the global value is
\* used, and marked global, only when the namespace key is absent; when
\* neither is present there is no value.
C24_NamespaceKeyBeatsGlobal ==
    ResolvedOne =>
        IF pc.call = "getConfig"
        THEN /\ NsKey.set => pc.res.ok /\ pc.res.value = NsKey.val /\ ~pc.res.global
             /\ (~NsKey.set /\ GlobalKey.set) =>
                    pc.res.ok /\ pc.res.value = GlobalKey.val /\ pc.res.global
             /\ (~NsKey.set /\ ~GlobalKey.set) => ~pc.res.ok /\ ~pc.res.global
        ELSE /\ NsKey.set => pc.res = NsKey.val
             /\ (~NsKey.set /\ GlobalKey.set) => pc.res = GlobalKey.val
             /\ (~NsKey.set /\ ~GlobalKey.set) => pc.res = ""

\* Both keys are present with different values and the namespace value was
\* returned
C24_Witness ==
    /\ ResolvedOne
    /\ NsKey.set /\ GlobalKey.set /\ NsKey.val # GlobalKey.val
    /\ IF pc.call = "getConfig" THEN pc.res.value = NsKey.val /\ ~pc.res.global
       ELSE pc.res = NsKey.val

\* The pools the document declares for the namespace itself
OwnPools ==
    {k.val : k \in {cm.data.cidr[pc.namespace], cm.data.range[pc.namespace]}} \ {<<>>}

\* Every pool key the document holds has a declaration as its value
NoEmptyPoolKey ==
    \A s \in Scopes : /\ cm.data.cidr[s].set => cm.data.cidr[s].val # <<>>
                      /\ cm.data.range[s].set => cm.data.range[s].val # <<>>

\* C25: a service whose namespace has its own pool declared (cidr-<namespace>
\* or range-<namespace>) is served from that pool; a global pool is used only
\* for a namespace with no pool of its own.
C25_NamespacePoolBeatsGlobal ==
    (pc.phase = "resolved" /\ pc.call = "discoverPool" /\ OwnPools # {} /\ NoEmptyPoolKey) =>
        /\ pc.res.ok
        /\ ~pc.res.global
        /\ pc.res.pool \in OwnPools

\* This step is a step of the worker
WorkerStep == pc' # pc

\* C26: a reconcile only reads the configuration document: no step of a
\* reconcile creates, updates or deletes it.
C26_ReconcileNeverWritesDocument ==
    [][WorkerStep => cm' = cm]_vars

\* The two pools discoverVIPs splits the declaration of the call into
SplitOfCall ==
    IF ContainsSlash(pc.pool) THEN SplitCIDRsByIPFamily(pc.pool) ELSE SplitRangesByIPFamily(pc.pool)

\* The declaration string a single-stack call passes to the allocator
DeclarationPassed ==
    IF pc.families = <<>>
    THEN IF SplitOfCall.ipv4 = <<>> THEN SplitOfCall.ipv6 ELSE SplitOfCall.ipv4
    ELSE IF pc.families[1] = 6 THEN SplitOfCall.ipv6 ELSE SplitOfCall.ipv4

\* A single-stack call has searched the registry entry of its namespace
SearchedRegistry ==
    /\ pc.phase = "returned" /\ pc.pool # DHCPPool
    /\ pc.policy \in {"", "SingleStack"}
    /\ pc.preferred = <<>>
    /\ pc.err \in {"", "OutOfIPs"}

\* C28: the registry is only a cache: the pool set an allocation call
\* searches is the parse of the declaration string passed in that call (under
\* either setting of skip-end-ips-in-cidr), also after the namespace's pool has
\* switched between a CIDR declaration and a range declaration and back.
C28_RegistryIsOnlyACache ==
    SearchedRegistry =>
        /\ ManagerIndex(Manager, "a") # 0
        /\ \E cfg \in AllocFlags :
              /\ BuiltPool(DeclarationPassed, cfg).ok
              /\ Manager[ManagerIndex(Manager, "a")].poolIPSet = BuiltPool(DeclarationPassed, cfg).val

\* Two services draw from one pool: the same declaration, and the same
\* namespace or a global declaration
SameScope(k1, k2) ==
    /\ discoverPool(cm, NsOf(k1)).ok
    /\ discoverPool(cm, NsOf(k1)) = discoverPool(cm, NsOf(k2))
    /\ NsOf(k1) = NsOf(k2) \/ discoverPool(cm, NsOf(k1)).global

\* C27: with sharing disabled, no two distinct services in the same scope
\* hold the same allocator-assigned address at the same time, the DHCP
\* address 0.0.0.0 aside, also when the reconciles of the class controller's
\* worker and of the service controller interleave between listing the
\* in-use set and writing back.
C27_NoTwoServicesHoldOneAddress ==
    \A k1, k2 \in Keys :
        (/\ k1 # k2 /\ store[k1].exists /\ store[k2].exists
         /\ SameScope(k1, k2) /\ ~discoverPool(cm, NsOf(k1)).allowShare)
        => SeqRange(store[k1].ann) \cap SeqRange(store[k2].ann) \subseteq {DHCPAddr}

\* A caller is inside the allocator's registry code: past the walk over
\* Manager, before the rebuild or append and the search
InRegistry(c) == pc[c].phase = "commit"

\* C29: reads and writes of the process-wide allocator registry are
\* serialised: two reconciles running at the same time are never both inside
\* a registry lookup, rebuild or append.
C29_RegistryAccessSerialised ==
    \A c1, c2 \in Callers : InRegistry(c1) /\ InRegistry(c2) => c1 = c2

\* The keys a worker can be handed by the next Get
Waiting == SeqRange(queue)

\* C30: at no time are two reconciles of the same service key in progress in
\* the class controller: while the worker reconciles a key, that key is not
\* waiting in the queue to be handed out again, also when events for it
\* arrive during the reconcile or it is re-queued after an error; it is kept
\* in the dirty set until the reconcile is done.
C30_NoConcurrentReconcileOfAKey ==
    /\ \A k \in Processing : k \notin Waiting
    /\ \A i, j \in 1..Len(queue) : queue[i] = queue[j] => i = j

\* An add for the key being reconciled arrived during the reconcile
C30_Witness ==
    /\ pc.phase \in {"finalizer", "sync", "write"}
    /\ pc.key \in dirty
    /\ pc.key \notin Waiting

\* How many times the queue holds k
TimesWaiting(k) == Cardinality({i \in 1..Len(queue) : queue[i] = k})

\* C31: any number of events for a key that arrive while the key waits in
\* the queue or is being reconciled collapse into one further reconcile: a
\* key with an add pending waits in the queue exactly once, or not at all
\* while it is being reconciled (Done adds it then), and a key with no add
\* pending does not wait.
C31_EventsCollapseIntoOneReconcile ==
    \A k \in Keys :
        TimesWaiting(k) = IF k \in dirty /\ k \notin Processing THEN 1 ELSE 0

\* A further event that enqueues is about to be delivered for a key that
\* already has an add pending
FurtherEvent(k) ==
    k \in dirty /\ cache[k] # store[k] /\ ShouldEnqueue(cache[k], store[k])

\* A further event is about to arrive for the key being reconciled, which
\* already had one during the reconcile
C31_Witness == \E k \in Processing : FurtherEvent(k) /\ TimesWaiting(k) = 0

\* syncService returns nil at once: the key taken from the queue is not in
\* the cache
ReturnsGone == pc.phase = "idle" /\ queue # <<>> /\ queue' = Tail(queue) /\ pc' = Idle

\* The key whose reconcile ends in this step
EndingKey == IF ReturnsGone THEN Head(queue) ELSE hist.key

\* After an error the key is added with the rate limiter's delay and counted
\* as a failure; the reconcile is done
RequeuedOnError ==
    (Returns /\ hist'.ret = "err")
    => /\ hist.key \in delayed' /\ hist.key \in failures'
       /\ Processing' = {}

\* A delay that ends puts the key in the queue, or in the dirty set while
\* the key is being reconciled
DelayEndsInAdd == \A k \in delayed \ delayed' : k \in dirty'

\* After a nil return the failure count of the key is gone and the worker has
\* not added the key; the reconcile is done
ForgottenOnSuccess ==
    ((Returns /\ hist'.ret = "ok") \/ ReturnsGone)
    => /\ EndingKey \notin failures'
       /\ delayed' = delayed
       /\ Processing' = {}

\* After a nil return nothing is left that reconciles the key again, unless
\* an add arrived during the reconcile
NothingPendingOnSuccess ==
    ((Returns /\ hist'.ret = "ok") \/ ReturnsGone)
    => /\ EndingKey \notin delayed'
       /\ EndingKey \in SeqRange(queue') => EndingKey \in dirty

OtherFields(svc) ==
    [svc EXCEPT !.implLabel = "", !.legacyLabel = FALSE, !.annSet = FALSE,
                !.ann = <<>>, !.iface = "", !.lbIP = <<>>]

\* The step is the Update call of an attempt
UpdateStep == pc.phase = "update" /\ pc' # pc

\* C33: a write-back refused with a conflict is retried a bounded number of
\* times; each attempt reads the service again and applies only the label,
\* annotation and loadBalancerIP changes to the object just read, so what
\* others changed meanwhile in other fields is kept; when the attempts are
\* used up the call returns an error.
C33_WriteBackRetriesOnFreshRead ==
    [][UpdateStep =>
          /\ store' # store
             => /\ store'[pc.key] = Updated(store[pc.key], pc)
                /\ OtherFields(store'[pc.key]) = OtherFields(store[pc.key])
                /\ pc'.phase = "returned" /\ pc'.err = ""
          /\ store' = store
             => /\ pc'.attempts = pc.attempts + (IF store[pc.key].exists THEN 1 ELSE 0)
                /\ pc'.phase = "get" => pc'.attempts < DefaultRetrySteps
                /\ pc'.phase = "returned" => pc'.err # ""
                /\ pc'.err = "conflict" <=> pc'.attempts = DefaultRetrySteps]_vars

\* An update went through on a later attempt, and the service then holds
\* ports that differ from those of the copy the caller passed
C33_Witness ==
    /\ pc.phase = "returned" /\ pc.err = "" /\ pc.attempts > 1
    /\ store[pc.key].exists
    /\ store[pc.key].ports # pc.svc.ports
    /\ store[pc.key].annSet

\* The worker's step writes the loadbalancerIPs annotation or the
\* implementation label of the service it reconciles
WorkerWritesAddress ==
    /\ pc.phase # "idle" /\ pc' # pc
    /\ store'[pc.key].exists
    /\ \/ store'[pc.key].ann # store[pc.key].ann
       \/ store'[pc.key].annSet # store[pc.key].annSet
       \/ store'[pc.key].implLabel # store[pc.key].implLabel

\* addFinalizer has returned an error
AddFinalizerFails ==
    pc.phase = "finalizer" /\ ~pc.svc.deleting /\ hist'.ret = "err"

\* Every service the class controller has labelled carries the finalizer
LabelledHaveFinalizer ==
    \A k \in Keys :
        store[k].exists /\ store[k].implLabel = ImplementationLabelValue
        => store[k].finalizer

\* C34: in the class controller the cleanup finalizer is added before an
\* address is allocated or written: a service never carries an address
\* written by the class controller without the finalizer, and when adding
\* the finalizer fails nothing is allocated or written in that reconcile.
C34_FinalizerBeforeAllocation ==
    /\ []LabelledHaveFinalizer
    /\ [][/\ WorkerWritesAddress => store'[pc.key].finalizer
          /\ AddFinalizerFails => /\ store' = store /\ Manager' = Manager /\ cm' = cm
                                  /\ pc' = Idle]_vars

\* Every service the class controller has labelled and that is not being
\* deleted carries the finalizer
LiveLabelledHaveFinalizer ==
    \A k \in Keys :
        /\ store[k].exists /\ ~store[k].deleting
        /\ store[k].implLabel = ImplementationLabelValue
        => store[k].finalizer

\* C34 for the services that are not being deleted: the cleanup of a deleted
\* service removes the finalizer and leaves the address, and the service
\* stays while the finalizer of somebody else holds it
C34_FinalizerBeforeAllocationUntilDeletion ==
    /\ []LiveLabelledHaveFinalizer
    /\ [][/\ WorkerWritesAddress => store'[pc.key].finalizer
          /\ AddFinalizerFails => /\ store' = store /\ Manager' = Manager /\ cm' = cm
                                  /\ pc' = Idle]_vars

\* The worker is about to write an address to a service whose finalizer it
\* added in this reconcile
C34_Witness ==
    /\ pc.phase = "write" /\ pc.vips # <<>>
    /\ ~pc.svc.finalizer
    /\ store[pc.key].exists /\ store[pc.key].finalizer
    /\ ~store[pc.key].annSet

\* The worker's step reconciles a service whose copy from the cache has the
\* deletionTimestamp set
DeletionStep == pc.phase = "finalizer" /\ pc.svc.deleting /\ pc' # pc

\* C35: when the service being reconciled has its deletionTimestamp set, the
\* only store write is the patch that removes the cleanup finalizer, and
\* there is none when the finalizer is absent: no address is allocated, and
\* labels, annotations and spec of the service stay as they are.
C35_DeletionOnlyRemovesFinalizer ==
    [][DeletionStep =>
          /\ Manager' = Manager /\ cm' = cm
          /\ \A k \in Keys \ {pc.key} : store'[k] = store[k]
          /\ store'[pc.key] \in {store[pc.key],
                                 Stored([store[pc.key] EXCEPT !.finalizer = FALSE])}
          /\ ~pc.svc.finalizer => store' = store
          /\ pc' = Idle]_vars

\* The reconcile of a deleted service that held an address has removed the
\* finalizer, and the API server has dropped the object
C35_Witness ==
    /\ hist.path = "delete" /\ hist.ret = "ok" /\ hist.writes = 1
    /\ hist.clean
    /\ cache[hist.key].exists /\ cache[hist.key].deleting /\ cache[hist.key].annSet
    /\ ~store[hist.key].exists

\* The step in which a reconcile panics
PanicStep == hist.ret = "" /\ hist'.ret = "panic"

\* The key of a panicking reconcile is marked done and not added again by
\* the worker
PanickingKeyDropped ==
    PanicStep => /\ hist.key \notin Processing'
                 /\ delayed' = delayed /\ failures' = failures
                 /\ hist.key \in SeqRange(queue') => hist.key \in dirty

\* C36: a panic raised while the worker reconciles a key is recovered
\* without ending the process: the worker goes on to other keys, and the
\* panicking key is dropped, marked done and not retried.
C36_PanicIsRecovered ==
    [][PanickingKeyDropped /\ (PanicStep => pc' = Idle)]_vars

\* This step is syncLoadBalancer reaching its write-back for a service that
\* declares no ports
PortlessChosen == pc.phase = "sync" /\ pc'.phase = "write" /\ pc.svc.ports = <<>>

\* C37: a service that declares no ports is never assigned an address that
\* another service already holds: the shared-VIP selection yields no
\* preferred address for it, and the address it gets is held by no labelled
\* service in scope.
C37_PortlessServiceGetsFreshAddress ==
    [][PortlessChosen =>
          /\ pc'.shared = <<>>
          /\ \A x \in SeqRange(pc'.vips) \ {DHCPAddr} :
                HoldersOf(x, store, cm', NsOf(pc.key)) \ {pc.key} = {}]_vars

\* The keys of the other labelled services in scope whose loadbalancerIPs
\* annotation does not parse
UnparsableHolders(st, c, key) ==
    {k \in InScopeKeys(st, c, NsOf(key)) \ {key} :
        st[k].annSet /\ ~parseAddrList(st[k].ann).ok}

\* This step is syncLoadBalancer for a service that needs an address, while
\* another labelled service in its scope has an annotation that does not
\* parse
AllocatesBesideUnparsable ==
    /\ pc.phase = "sync" /\ pc' # pc
    /\ ~IsLegacy(pc.svc) /\ ~HasIPs(pc.svc)
    /\ UnparsableHolders(store, cm', pc.key) # {}

\* C38: a labelled service whose loadbalancerIPs annotation is not a
\* parsable address list does not keep other services in the same scope from
\* being allocated an address: their reconcile does not fail on it.
C38_UnparsableAnnotationBlocksNobody ==
    [][AllocatesBesideUnparsable => hist'.err # "parse"]_vars

\* Some reconcile has begun
ReconcileBegun == hist.key # "" \/ pc.phase # "idle"

\* Run returns from its wait for the cache without a synchronised cache
StoppedBeforeSync == run.phase = "wait" /\ run'.phase = "returned"

\* C39: no key is reconciled before the informer cache has reported that it
\* is synchronised; when the stop signal arrives before that, Run returns
\* with the queue shut down and the worker is never started, then or later.
C39_NoReconcileBeforeCacheSync ==
    /\ [](ReconcileBegun => run.synced /\ run.worker)
    /\ [](run.worker => run.synced)
    /\ [][StoppedBeforeSync => run.stopped /\ ~run'.worker /\ run'.shutdown]_vars
    /\ [][run.phase = "returned" => run'.worker = run.worker /\ run'.shutdown]_vars

\* Run was stopped before the cache synchronised while a key waited in the
\* queue: the queue is shut down and the key was never reconciled
C39_Witness ==
    /\ run.phase = "returned" /\ ~run.worker /\ run.shutdown
    /\ queue # <<>>
    /\ ~ReconcileBegun

\* This step delivers an update event for key k: the old and the new object
\* both exist
UpdateEvent(k) == cache[k].exists /\ store[k].exists /\ cache'[k] # cache[k]

\* This step enqueues key k
Enqueues(k) == k \notin dirty /\ k \in dirty' /\ queue' = Append(queue, k)

\* The new object is of type LoadBalancer with the configured class
OfConfiguredClass(svc) == svc.type = "LoadBalancer" /\ svc.class = LbClass

\* One of the fields the spec lists differs
ListedFieldDiffers(old, cur) ==
    \/ old.ports # cur.ports
    \/ old.sessionAffinityConfig # cur.sessionAffinityConfig
    \/ old.sourceRanges # cur.sourceRanges
    \/ old.externalIPs # cur.externalIPs
    \/ old.externalTrafficPolicy # cur.externalTrafficPolicy
    \/ old.healthCheckNodePort # cur.healthCheckNodePort
    \/ Len(old.families) # Len(cur.families)
    \/ Annotations(old) # Annotations(cur)
    \/ old.uid # cur.uid

\* The objects differ in the status alone
OnlyStatusDiffers(old, cur) ==
    old.status # cur.status /\ [old EXCEPT !.status = cur.status] = cur

\* C40: an update event enqueues the key if and only if the new object is of
\* type LoadBalancer with the configured class and either one of the listed
\* fields differs or the new object has the finalizer and a
\* deletionTimestamp; an update that changes only the status does not
\* enqueue.
C40_UpdateEnqueuesIffListedFieldDiffers ==
    [][\A k \in Keys : UpdateEvent(k) =>
        /\ Enqueues(k) <=>
              /\ OfConfiguredClass(store[k])
              /\ \/ ListedFieldDiffers(cache[k], store[k])
                 \/ store[k].finalizer /\ store[k].deleting
        /\ OnlyStatusDiffers(cache[k], store[k]) => ~Enqueues(k)]_vars

\* C40 with the two further compared fields, spec.sessionAffinity and
\* spec.loadBalancerIP, and with the status-only update of an object that
\* has the finalizer and a deletionTimestamp left to the first part
C40_UpdateEnqueuesIffComparedFieldDiffers ==
    [][\A k \in Keys : UpdateEvent(k) =>
        /\ Enqueues(k) <=>
              /\ OfConfiguredClass(store[k])
              /\ \/ ListedFieldDiffers(cache[k], store[k])
                 \/ cache[k].sessionAffinity # store[k].sessionAffinity
                 \/ cache[k].lbIP # store[k].lbIP
                 \/ store[k].finalizer /\ store[k].deleting
        /\ /\ OnlyStatusDiffers(cache[k], store[k])
           /\ ~(store[k].finalizer /\ store[k].deleting)
           => ~Enqueues(k)]_vars

\* An update that changed spec.loadBalancerIP alone was delivered and the key
\* was enqueued
C40_Witness ==
    \E k \in scn.keys :
        /\ scn = ScnEvent
        /\ cache[k] = store[k]
        /\ store[k] = Edited(EventBase(TplPlain, <<TRUE, FALSE, FALSE>>, <<>>, "LoadBalancer"), "loadBalancerIP")
        /\ queue = <<k>>

====
